---- MODULE Spec2Model ----
(***************************************************************************)
(* Vimvaldi: the component/command state machine.                          *)
(*                                                                         *)
(* The repository holds two generations of the program:                    *)
(*   src/src/vimvaldi.py         the controller loop Interface.run with    *)
(*                               its own StatusLine (commands are lists    *)
(*                               of strings);                              *)
(*   src/vimvaldi/components.py  the components that return Command        *)
(*   src/vimvaldi/commands.py    objects (StatusLine, Editor, Menu, ...).  *)
(*                                                                         *)
(* Text is a sequence of one-character strings.  Python's 0-based string   *)
(* indices are kept; element i of a Python string is element i+1 here.     *)
(***************************************************************************)
EXTENDS Integers, Sequences, FiniteSets, TLC

VARIABLES
    \* components.StatusLine
    text,               \* <<left, center, right>>
    cursor_offset,
    current_state,      \* "NORMAL" | "INSERT"
    changed,            \* the status line's Changeable flag
    \* observation of the last handler call
    key,                \* the key (or "command") handled last
    ret,                \* the commands the handler returned
    submitted,          \* the left-slot text taken by Enter (local `text`)
    io,                 \* the file or parse operation the handler attempted
    \* components.Editor
    score,              \* the items of the score, in order
    position,
    current_file_path,
    changed_since_saving,
    previous_repeatable_command,
    editor_changed,     \* the editor's Changeable flag
    unsaved,            \* history: an insert has succeeded since the last
                        \* successful save or open (no field of the Editor)
    \* src/src/vimvaldi.py Interface
    state_stack,        \* the names of the stacked components, bottom first
    status_line,        \* the StatusLine: left slot, focused, cursor_offset
    menu_index,         \* Menu.index
    run_command,        \* the local `command` of run
    run_k,              \* the local `k` of run: the event read last
    process,            \* "running" | "exited" | "crashed"
    pushed,             \* history: the pushes not yet undone
    undone,             \* history: pops in a row that undid an append_state
    fallback,           \* the last refresh raised curses.error: the text
                        \* "Screen size too small!" is what the window shows
    \* the controller of the Command components
    view_stack,         \* the names of the stacked components, bottom first
    focus,              \* which of the status line and the components are focused
    index,              \* components.Menu.index
    queue,              \* the commands waiting to be resolved
    enqueued,           \* history: the commands enqueued since the last key
    log,                \* history: the commands resolved since the last key
    \* a Menu navigated on its own (both generations, over the same item list)
    items,              \* Menu.items
    spinning,           \* components.Menu.__move_index is in a loop it never leaves
    trail,              \* history, components.Menu: the index before and after
                        \* each of the next() calls made in a row
    old_trail,          \* history, src/src/vimvaldi.py Menu: the same
    \* TextDisplay.draw: the wrapping of the text
    display_text,       \* the lines of the text not yet taken by the for loop
    line,               \* the local `line`: what is left of the line being wrapped
    heading_level,
    width,
    wrapped,            \* the local `wrapped`: the output lines so far
    \* TextDisplay: scrolling and the drawing of the visible lines
    line_offset,        \* TextDisplay.line_offset
    height,             \* the height of the content space
    screen,             \* the rows written by the last draw: per row the
                        \* characters of addstr with the flags they carry
    draw_raised,        \* the last draw raised IndexError
    rendered,           \* the window shows the text as it is now
    \* a DrawableMenu and its Changeable flag
    menu_changed,       \* Changeable.changed of the menu
    draws               \* history: per draw call since the last mutation, the
                        \* window operations it performed (the last two calls)

slVars == <<text, cursor_offset, current_state, changed>>
obsVars == <<key, ret, submitted, io>>
edVars == <<score, position, current_file_path, changed_since_saving,
            previous_repeatable_command, editor_changed, unsaved>>
oldVars == <<state_stack, status_line, menu_index, run_command, run_k, pushed,
             undone, fallback>>
runVars == <<oldVars, process>>
appVars == <<view_stack, focus, index, queue, enqueued, log>>
menuVars == <<items, spinning, trail, old_trail>>
wrapVars == <<display_text, line, heading_level, width, wrapped>>
drawVars == <<line_offset, height, screen, draw_raised, rendered>>
dirtyVars == <<menu_changed, draws>>
libVars == <<menuVars, wrapVars, drawVars, dirtyVars>>
vars == <<slVars, obsVars, edVars, runVars, appVars, libVars>>

----------------------------------------------------------------------------
(* Bounds of the model *)

\* characters may be typed, and Backspace/Delete used, only while the left
\* slot holds at most this many characters
MaxLen == 2

\* inserts are sent only while the score holds fewer items than this, and a
\* file that is opened holds at most this many
MaxScore == 2

\* views are pushed only while the stack holds fewer components than this
MaxStack == 3

----------------------------------------------------------------------------
(* Python string operations *)

Max(a, b) == IF a >= b THEN a ELSE b
Min(a, b) == IF a <= b THEN a ELSE b

\* normalise a slice bound as Python does (negative counts from the end)
PyIndex(s, i) == IF i < 0 THEN Max(i + Len(s), 0) ELSE Min(i, Len(s))

\* s[lo:hi]
PySlice(s, lo, hi) ==
    LET a == PyIndex(s, lo)
        b == PyIndex(s, hi)
    IN  IF a >= b THEN <<>> ELSE SubSeq(s, a + 1, b)

\* s[lo:]
PyFrom(s, lo) == PySlice(s, lo, Len(s))

IsSpace(c) == c = " "

RECURSIVE LStrip(_)
LStrip(s) ==
    IF s = <<>> THEN <<>>
    ELSE IF IsSpace(Head(s)) THEN LStrip(Tail(s)) ELSE s

RECURSIVE RStrip(_)
RStrip(s) ==
    IF s = <<>> THEN <<>>
    ELSE IF IsSpace(s[Len(s)]) THEN RStrip(SubSeq(s, 1, Len(s) - 1)) ELSE s

\* a strip that removes nothing
Strip_Keeps(s) == s

\* a strip that takes the first character with it, space or not
Strip_DropsFirst(s) == IF s = <<>> THEN <<>> ELSE Tail(s)

\* str.strip()
Strip(s) == RStrip(LStrip(s))

\* the length of the first token of a text that starts with a non-space
RECURSIVE TokenLen(_)
TokenLen(s) ==
    IF s = <<>> \/ IsSpace(Head(s)) THEN 0 ELSE 1 + TokenLen(Tail(s))

\* str.split(): the whitespace-separated tokens
RECURSIVE Split(_)
Split(s) ==
    LET t == LStrip(s)
    IN  IF t = <<>> THEN <<>>
        ELSE <<SubSeq(t, 1, TokenLen(t))>> \o Split(PyFrom(t, TokenLen(t)))

\* str.find(" ", start): the lowest index >= start holding a space, or -1
Find(s, start) ==
    LET hits == {i \in 0..(Len(s) - 1) : i >= start /\ IsSpace(s[i + 1])}
    IN  IF hits = {} THEN -1 ELSE CHOOSE i \in hits : \A j \in hits : i <= j

\* str.rfind(" ", 0, end): the highest index in [0, end) holding a space, or -1
RFind(s, end) ==
    LET e == PyIndex(s, end)
        hits == {i \in 0..(Len(s) - 1) : i < e /\ IsSpace(s[i + 1])}
    IN  IF hits = {} THEN -1 ELSE CHOOSE i \in hits : \A j \in hits : i >= j

----------------------------------------------------------------------------
(* commands.py *)

NONE == <<"None">>           \* Python's None where a text is expected
NoCommand == [type |-> "None"]   \* Python's None where a command is expected

ToggleFocusCommand == [type |-> "ToggleFocus"]
QuitCommand(forced) == [type |-> "Quit", forced |-> forced]
SaveCommand(path, forced) == [type |-> "Save", forced |-> forced, path |-> path]
OpenCommand(path, forced) == [type |-> "Open", forced |-> forced, path |-> path]
PopComponentCommand == [type |-> "PopComponent"]
PushComponentCommand(component) == [type |-> "PushComponent", component |-> component]
SetStatusLineTextCommand(t, pos) ==
    [text |-> t, position |-> pos, type |-> "SetStatusLineText"]
SetStatusLineStateCommand(state) == [type |-> "SetStatusLineState", state |-> state]
ClearStatusLineCommand == [type |-> "ClearStatusLine"]
InsertCommand(t) == [text |-> t, type |-> "Insert"]

\* utilities.Position
LEFT == 0
CENTER == 1
RIGHT == 2

----------------------------------------------------------------------------
(* Words of the status-line grammar *)

w_help == <<"h", "e", "l", "p">>
w_info == <<"i", "n", "f", "o">>
w_q == <<"q">>
w_quit == <<"q", "u", "i", "t">>
w_qf == <<"q", "!">>
w_quitf == <<"q", "u", "i", "t", "!">>
w_w == <<"w">>
w_write == <<"w", "r", "i", "t", "e">>
w_wf == <<"w", "!">>
w_writef == <<"w", "r", "i", "t", "e", "!">>
w_o == <<"o">>
w_open == <<"o", "p", "e", "n">>
w_of == <<"o", "!">>
w_openf == <<"o", "p", "e", "n", "!">>
w_wq == <<"w", "q">>
w_wqf == <<"w", "q", "!">>

----------------------------------------------------------------------------
(* Keys.  A key is a one-character string or a curses key code; the codes  *)
(* are written by name.                                                    *)

BackspaceKeys == {"KEY_BACKSPACE", "\\b", "\\x7f"}
EnterKeys == {"KEY_ENTER", "\\n", "\\r"}
EscKey == "\\x1b"
\* keys that are Python ints (curses key codes)
IntKeys == {"KEY_BACKSPACE", "KEY_DC", "KEY_LEFT", "KEY_RIGHT", "553", "568",
            "KEY_HOME", "KEY_END", "KEY_ENTER", "KEY_UP"}

\* str(key): what the final branch of the handlers inserts
KeyStr(k) ==
    CASE k = "KEY_UP" -> <<"2", "5", "9">>
      [] OTHER -> <<k>>

----------------------------------------------------------------------------
(* components.StatusLine *)

\* clear_text forgetting to reset the cursor
clear_text_KeepsCursor(txt, cur, pos) ==
    [text |-> [txt EXCEPT ![pos + 1] = <<>>], cursor_offset |-> cur]

\* StatusLine.clear_text on (text, cursor_offset)
clear_text(txt, cur, pos) ==
    [text |-> [txt EXCEPT ![pos + 1] = <<>>],
     cursor_offset |-> IF pos = 0 THEN 0 ELSE cur]

\* StatusLine.clear
clear(txt, cur) ==
    LET a == clear_text(txt, cur, LEFT)
        b == clear_text(a.text, a.cursor_offset, CENTER)
    IN  clear_text(b.text, b.cursor_offset, RIGHT)

\* StatusLine.set_text
set_text(txt, cur, pos, t) ==
    [text |-> [txt EXCEPT ![pos + 1] = t],
     cursor_offset |-> IF pos = LEFT THEN Len(t) ELSE cur]

\* possible_path: whatever follows the first token, stripped
PossiblePath(command, command_parts) ==
    Strip(PyFrom(command, Len(command_parts[1])))

\* q / quit matched on the first token instead of on the whole command
QuitCommands_FirstToken(command, command_parts) ==
    (IF command_parts[1] \in {w_q, w_quit} THEN <<QuitCommand(FALSE)>> ELSE <<>>)
    \o (IF command_parts[1] \in {w_qf, w_quitf} THEN <<QuitCommand(TRUE)>> ELSE <<>>)

\* the q / quit / q! / quit! productions
QuitCommands(command, command_parts) ==
    (IF command \in {w_q, w_quit} THEN <<QuitCommand(FALSE)>> ELSE <<>>)
    \o (IF command \in {w_qf, w_quitf} THEN <<QuitCommand(TRUE)>> ELSE <<>>)

\* wq with the Quit issued before the Save
WriteQuitCommands_QuitFirst(first, possible_path) ==
    (IF first = w_wq
        THEN <<QuitCommand(FALSE), SaveCommand(possible_path, FALSE)>> ELSE <<>>)
    \o (IF first = w_wqf
        THEN <<QuitCommand(FALSE), SaveCommand(possible_path, TRUE)>> ELSE <<>>)

\* the wq / wq! productions
WriteQuitCommands(first, possible_path) ==
    (IF first = w_wq
        THEN <<SaveCommand(possible_path, FALSE), QuitCommand(FALSE)>> ELSE <<>>)
    \o (IF first = w_wqf
        THEN <<SaveCommand(possible_path, TRUE), QuitCommand(FALSE)>> ELSE <<>>)

\* the commands the NORMAL branch of Enter appends for the submitted text
NormalCommands(t) ==
    LET command == Strip(t)
        command_parts == Split(command)
        possible_path == PossiblePath(command, command_parts)
        first == command_parts[1]
    IN  (IF command \in {w_help, w_info}
            THEN <<PushComponentCommand(command)>> ELSE <<>>)
        \o
        (IF Len(command_parts) # 0
            THEN QuitCommands(command, command_parts)
              \o (IF first \in {w_w, w_write}
                     THEN <<SaveCommand(possible_path, FALSE)>> ELSE <<>>)
              \o (IF first \in {w_wf, w_writef}
                     THEN <<SaveCommand(possible_path, TRUE)>> ELSE <<>>)
              \o (IF first \in {w_o, w_open}
                     THEN <<OpenCommand(possible_path, FALSE)>> ELSE <<>>)
              \o (IF first \in {w_of, w_openf}
                     THEN <<OpenCommand(possible_path, TRUE)>> ELSE <<>>)
              \o WriteQuitCommands(first, possible_path)
            ELSE <<>>)

\* Enter in Insert mode stripping the text it forwards
EnterCommands_Strips(state, t) ==
    <<ToggleFocusCommand>>
    \o (IF state = "INSERT" THEN <<InsertCommand(Strip(t))>>
        ELSE IF state = "NORMAL" THEN NormalCommands(t)
        ELSE <<>>)

\* Enter asking for the focus to be toggled twice
EnterCommands_TogglesTwice(state, t) ==
    <<ToggleFocusCommand, ToggleFocusCommand>>
    \o (IF state = "INSERT" THEN <<InsertCommand(t)>> ELSE <<>>)

\* the command list Enter returns
EnterCommands(state, t) ==
    <<ToggleFocusCommand>>
    \o (IF state = "INSERT" THEN <<InsertCommand(t)>>
        ELSE IF state = "NORMAL" THEN NormalCommands(t)
        ELSE <<>>)

\* StatusLine._handle_keypress: the new (text, cursor_offset) and the
\* returned commands
StatusLineKeypress(txt, pos, state, k) ==
    LET left == txt[1]
        same == [text |-> txt, cursor_offset |-> pos, ret |-> <<>>]
        withLeft(t, c) == [text |-> [txt EXCEPT ![1] = t],
                           cursor_offset |-> c, ret |-> <<>>]
    IN  IF k \in BackspaceKeys THEN
            IF pos > 0 THEN
                withLeft(PySlice(left, 0, pos - 1) \o PyFrom(left, pos), pos - 1)
            ELSE IF Len(left) = 0 THEN
                LET c == clear_text(txt, pos, LEFT)
                IN  [text |-> c.text, cursor_offset |-> c.cursor_offset,
                     ret |-> <<ToggleFocusCommand>>]
            ELSE same
        ELSE IF k = "KEY_DC" THEN
            withLeft(PySlice(left, 0, pos) \o PyFrom(left, pos + 1), pos)
        ELSE IF k \notin IntKeys /\ k = EscKey THEN
            LET c == clear(txt, pos)
            IN  [text |-> c.text, cursor_offset |-> c.cursor_offset,
                 ret |-> <<ToggleFocusCommand>>]
        ELSE IF k = "KEY_LEFT" THEN
            withLeft(left, Max(1, pos - 1))
        ELSE IF k = "KEY_RIGHT" THEN
            withLeft(left, Min(Len(left), pos + 1))
        ELSE IF k = "553" THEN
            LET space_pos == RFind(left, pos - 1)
            IN  withLeft(left, IF space_pos # -1 THEN space_pos + 1 ELSE 1)
        ELSE IF k = "568" THEN
            LET space_pos == Find(left, pos + 1)
            IN  withLeft(left, IF space_pos # -1 THEN space_pos ELSE Len(left))
        ELSE IF k = "KEY_HOME" THEN
            withLeft(left, 0)
        ELSE IF k = "KEY_END" THEN
            withLeft(left, Len(left))
        ELSE IF k \in EnterKeys THEN
            LET c == clear_text(txt, pos, LEFT)
            IN  [text |-> c.text, cursor_offset |-> c.cursor_offset,
                 ret |-> EnterCommands(state, left)]
        ELSE
            withLeft(PySlice(left, 0, pos) \o KeyStr(k) \o PyFrom(left, pos),
                     pos + Len(KeyStr(k)))

\* StatusLine._handle_command on (text, cursor_offset, current_state)
StatusLineCommand(txt, cur, state, c) ==
    IF c.type = "SetStatusLineText" THEN
        LET r == set_text(txt, cur, c.position, c.text)
        IN  [text |-> r.text, cursor_offset |-> r.cursor_offset,
             current_state |-> state, changed |-> TRUE]
    ELSE IF c.type = "ClearStatusLine" THEN
        LET r == clear(txt, cur)
        IN  [text |-> r.text, cursor_offset |-> r.cursor_offset,
             current_state |-> state, changed |-> TRUE]
    ELSE IF c.type = "SetStatusLineState" THEN
        [text |-> txt, cursor_offset |-> cur, current_state |-> c.state,
         changed |-> changed]
    ELSE
        [text |-> txt, cursor_offset |-> cur, current_state |-> state,
         changed |-> changed]

----------------------------------------------------------------------------
(* src/src/vimvaldi.py: the controller loop Interface.run and the           *)
(* components it drives.  A command is None or a list of words.  The model  *)
(* follows what run reads: the stack, the status line's focus, left slot    *)
(* and cursor, the menu index and the loop's locals k and command.  The     *)
(* center and right slots (written while drawing and by the editor's        *)
(* insert feedback), the text displays' line_offset and the score are not   *)
(* read by run and are left out.                                            *)

c_new == <<"n", "e", "w">>
c_insert == <<"i", "n", "s", "e", "r", "t">>
c_change_state == <<"c", "h", "a", "n", "g", "e", "_", "s", "t", "a", "t", "e">>
c_append_state == <<"a", "p", "p", "e", "n", "d", "_", "s", "t", "a", "t", "e">>
n_logo == <<"l", "o", "g", "o">>
n_menu == <<"m", "e", "n", "u">>
n_editor == <<"e", "d", "i", "t", "o", "r">>

\* Python's None where a list of words is expected
NoneCommand == <<NONE>>

\* Interface.components: the registered components by name
components ==
    (n_logo :> "logo") @@ (w_info :> "info") @@ (w_help :> "help")
    @@ (n_menu :> "menu") @@ (n_editor :> "editor")

\* type(component) is TextDisplay
IsTextDisplay(c) == c \in {"info", "help"}

\* a menu item and the spacer (None) of the item list
MenuItem(action) == [action |-> action, spacer |-> FALSE]
Spacer == [action |-> <<>>, spacer |-> TRUE]

\* the items of the menu built by Interface.__init__
OldMenuItems ==
    <<MenuItem(<<c_new>>), MenuItem(<<>>), Spacer,
      MenuItem(<<c_append_state, w_help>>), MenuItem(<<c_append_state, w_info>>),
      Spacer, MenuItem(<<w_quit>>)>>

\* the while loop of Menu.__move_index
RECURSIVE OldSkipSpacers(_, _, _)
OldSkipSpacers(its, i, delta) ==
    IF its[i + 1].spacer
        THEN OldSkipSpacers(its, (i + (IF delta > 0 THEN 1 ELSE -1)) % Len(its),
                            delta)
        ELSE i

\* __move_index clamping at the ends instead of wrapping
OldMoveIndex_Clamps(its, i, delta) ==
    IF i + delta < 0 THEN i
    ELSE IF i + delta > Len(its) - 1 THEN i
    ELSE OldSkipSpacers(its, i + delta, delta)

\* Menu.__move_index
OldMoveIndex(its, i, delta) == OldSkipSpacers(its, (i + delta) % Len(its), delta)

\* StatusLine.__init__
OldStatusLineInit == [cursor_offset |-> 0, left |-> <<>>, focused |-> FALSE]

\* len(str(key)) == 1: the key is a character
IsChar(k) == k \notin IntKeys \cup {"KEY_RESIZE", "None", "INSERT"}

\* StatusLine.handle_keypress: the status line after the key, the returned
\* command and whether the handler raised (text[0] of an empty left slot)
OldStatusLineKeypress(sl, k0) ==
    LET takes == ~sl.focused /\ k0 \in {":", "INSERT"}
        k == IF ~sl.focused /\ k0 = "INSERT" THEN ">" ELSE k0
        s == IF takes THEN [sl EXCEPT !.focused = TRUE, !.cursor_offset = 0]
             ELSE sl
        c_pos == s.cursor_offset
        left == s.left
        none(st) == [status_line |-> st, command |-> NoneCommand, raised |-> FALSE]
    IN  IF ~sl.focused /\ ~takes THEN none(sl)
        ELSE IF k \in {"KEY_BACKSPACE", "\\x7f"} THEN
            IF c_pos > 1 THEN
                none([s EXCEPT !.left = PySlice(left, 0, c_pos - 1)
                                        \o PyFrom(left, c_pos),
                               !.cursor_offset = c_pos - 1])
            ELSE IF Len(left) = 1 THEN
                none([s EXCEPT !.left = <<>>, !.focused = FALSE])
            ELSE none(s)
        ELSE IF k = "KEY_DC" THEN
            none([s EXCEPT !.left = PySlice(left, 0, c_pos)
                                    \o PyFrom(left, c_pos + 1)])
        ELSE IF k = EscKey THEN
            none([s EXCEPT !.left = <<>>, !.focused = FALSE])
        ELSE IF k = "KEY_LEFT" THEN
            none([s EXCEPT !.cursor_offset = Max(1, c_pos - 1)])
        ELSE IF k = "KEY_RIGHT" THEN
            none([s EXCEPT !.cursor_offset = Min(Len(left), c_pos + 1)])
        ELSE IF k = "553" THEN
            LET space_pos == RFind(left, c_pos - 1)
            IN  none([s EXCEPT !.cursor_offset =
                        IF space_pos # -1 THEN space_pos + 1 ELSE 1])
        ELSE IF k = "568" THEN
            LET space_pos == Find(left, c_pos + 1)
            IN  none([s EXCEPT !.cursor_offset =
                        IF space_pos # -1 THEN space_pos ELSE Len(left)])
        ELSE IF k = "KEY_HOME" THEN
            none([s EXCEPT !.cursor_offset = 1])
        ELSE IF k = "KEY_END" THEN
            none([s EXCEPT !.cursor_offset = Len(left)])
        ELSE IF k \in EnterKeys THEN
            LET st == [s EXCEPT !.focused = FALSE, !.left = <<>>]
                words == Split(PyFrom(left, 1))
            IN  IF left = <<>> THEN
                    [status_line |-> st, command |-> NoneCommand, raised |-> TRUE]
                ELSE IF left[1] = ">" THEN
                    [status_line |-> st,
                     command |-> <<c_insert, PyFrom(left, 1)>>, raised |-> FALSE]
                ELSE IF words = <<w_q>> THEN
                    [status_line |-> st, command |-> <<w_quit>>, raised |-> FALSE]
                ELSE
                    [status_line |-> st, command |-> words, raised |-> FALSE]
        ELSE IF IsChar(k) THEN
            none([s EXCEPT !.left = PySlice(left, 0, c_pos) \o <<k>>
                                    \o PyFrom(left, c_pos),
                           !.cursor_offset = c_pos + 1])
        ELSE none(s)

\* Menu.handle_keypress
OldMenuKeypress(sl, its, i, k) ==
    LET r == OldStatusLineKeypress(sl, k)
        out(j, c) == [status_line |-> r.status_line, index |-> j, command |-> c,
                      raised |-> r.raised]
    IN  IF r.raised \/ r.status_line.focused \/ r.command # NoneCommand
            THEN out(i, r.command)
        ELSE IF k = "j" THEN out(OldMoveIndex(its, i, 1), NoneCommand)
        ELSE IF k = "k" THEN out(OldMoveIndex(its, i, -1), NoneCommand)
        ELSE IF k \in EnterKeys \cup {"l"} THEN out(i, its[i + 1].action)
        ELSE out(i, NoneCommand)

\* LogoDisplay.handle_keypress
OldLogoKeypress(sl, i, k) ==
    [status_line |-> sl, index |-> i, raised |-> FALSE,
     command |-> IF k \in EnterKeys THEN <<c_change_state, n_menu>>
                 ELSE NoneCommand]

\* TextDisplay.handle_keypress
OldTextDisplayKeypress(sl, i, k) ==
    LET r == OldStatusLineKeypress(sl, k)
        out(c) == [status_line |-> r.status_line, index |-> i, command |-> c,
                   raised |-> r.raised]
    IN  IF r.raised \/ r.status_line.focused \/ r.command # NoneCommand
            THEN out(r.command)
        ELSE IF k = "q" THEN out(<<w_quit>>)
        ELSE out(NoneCommand)

\* Editor.handle_keypress
OldEditorKeypress(sl, i, k) ==
    LET r == OldStatusLineKeypress(
                 sl, IF k = "i" /\ ~sl.focused THEN "INSERT" ELSE k)
    IN  [status_line |-> r.status_line, index |-> i, command |-> r.command,
         raised |-> r.raised]

\* self.state_stack[-1].handle_keypress(k)
OldHandleKeypress(top, sl, i, k) ==
    CASE top = "logo" -> OldLogoKeypress(sl, i, k)
      [] top = "menu" -> OldMenuKeypress(sl, OldMenuItems, i, k)
      [] top = "editor" -> OldEditorKeypress(sl, i, k)
      [] OTHER -> OldTextDisplayKeypress(sl, i, k)

\* list.pop() of the last element
Pop(s) == SubSeq(s, 1, Len(s) - 1)

\* the pop of "quit" that keeps running on an empty stack
QuitResolve_NoExit(stack) ==
    [state_stack |-> Pop(stack), process |-> "running"]

\* "quit": pop, and sys.exit() when nothing is left
QuitResolve(stack) ==
    [state_stack |-> Pop(stack),
     process |-> IF Len(Pop(stack)) = 0 THEN "exited" ELSE "running"]

\* "help" / "info" / "new": remove all text displays on top of the stack
RECURSIVE PopTextDisplays(_)
PopTextDisplays(stack) ==
    IF Len(stack) # 0 /\ IsTextDisplay(stack[Len(stack)])
        THEN PopTextDisplays(Pop(stack))
        ELSE stack

\* "append_state" overwriting the top of the stack
AppendState_Replaces(stack, c) == [stack EXCEPT ![Len(stack)] = c]

\* "append_state": self.state_stack.append(component)
AppendState(stack, c) == Append(stack, c)

\* "change_state": self.state_stack[-1] = component
ChangeState(stack, c) == [stack EXCEPT ![Len(stack)] = c]

\* the command handling of Interface.run on (state_stack, status_line)
ResolveCommand(cmd, stack, sl) ==
    LET same == [state_stack |-> stack, status_line |-> sl, process |-> "running"]
        cleared == [sl EXCEPT !.left = <<>>]
        KeyError == [state_stack |-> stack, status_line |-> sl,
                     process |-> "crashed"]
    IN  IF cmd = NoneCommand THEN same
        ELSE IF Len(cmd) = 1 THEN
            IF cmd[1] = w_quit THEN
                [state_stack |-> QuitResolve(stack).state_stack,
                 status_line |-> sl,
                 process |-> QuitResolve(stack).process]
            ELSE IF cmd[1] \in {w_help, w_info, c_new} THEN
                IF cmd[1] = c_new THEN
                    [state_stack |-> Append(PopTextDisplays(stack),
                                            components[n_editor]),
                     status_line |-> cleared, process |-> "running"]
                ELSE
                    [state_stack |-> Append(PopTextDisplays(stack),
                                            components[cmd[1]]),
                     status_line |-> sl, process |-> "running"]
            ELSE same
        ELSE IF Len(cmd) = 2 THEN
            IF cmd[1] = c_change_state THEN
                IF cmd[2] \in DOMAIN components THEN
                    [state_stack |-> ChangeState(stack, components[cmd[2]]),
                     status_line |-> cleared, process |-> "running"]
                ELSE KeyError
            ELSE IF cmd[1] = c_append_state THEN
                IF cmd[2] \in DOMAIN components THEN
                    [state_stack |-> AppendState(stack, components[cmd[2]]),
                     status_line |-> cleared, process |-> "running"]
                ELSE KeyError
            ELSE same
        ELSE same

\* history of the pushes not yet undone: the stack before each push, and
\* whether the push was an append_state
Track(h, cmd, stack) ==
    IF cmd = <<w_quit>> THEN (IF h = <<>> THEN h ELSE Pop(h))
    ELSE IF Len(cmd) = 1 /\ cmd[1] \in {w_help, w_info, c_new} THEN
        <<[stack |-> stack, pure |-> FALSE]>>
    ELSE IF Len(cmd) = 2 /\ cmd[1] = c_append_state /\ cmd[2] \in DOMAIN components
        THEN Append(h, [stack |-> stack, pure |-> TRUE])
    ELSE IF Len(cmd) = 2 /\ cmd[1] = c_change_state THEN <<>>
    ELSE h

\* the number of pops in a row that have undone a push
TrackUndone(n, h, cmd) ==
    IF cmd = <<w_quit>>
        THEN (IF h # <<>> /\ h[Len(h)].pure THEN n + 1 ELSE 0)
    ELSE IF Track(h, cmd, <<>>) # h THEN 0
    ELSE n

\* Interface.__init__ and the first pass of run (k = None)
InitInterface ==
    /\ state_stack = <<"logo">>
    /\ status_line = OldStatusLineInit
    /\ menu_index = 0
    /\ run_command = NoneCommand
    /\ run_k = "None"
    /\ process = "running"
    /\ pushed = <<>>
    /\ undone = 0
    /\ fallback = FALSE

\* a menu item (commands, tooltip) and the spacer (None) of an item list
NewMenuItem(commands, tooltip) ==
    [spacer |-> FALSE, commands |-> commands, tooltip |-> tooltip]
NewSpacer == [spacer |-> TRUE, commands |-> <<>>, tooltip |-> <<>>]

\* the menu of the controller: the items of Interface.__init__ as commands
AppMenuItems ==
    <<NewMenuItem(<<PushComponentCommand(n_editor)>>, <<"Creates a new score.">>),
      NewMenuItem(<<>>, <<"Imports a score from a file.">>),
      NewSpacer,
      NewMenuItem(<<PushComponentCommand(w_help)>>,
                  <<"Displays program documentation.">>),
      NewMenuItem(<<PushComponentCommand(w_info)>>,
                  <<"Shows information about the program.">>),
      NewSpacer,
      NewMenuItem(<<QuitCommand(FALSE)>>, <<"Terminates the program.">>)>>

\* the status line and the registered components
Units == {"status_line", "logo", "menu", "help", "info", "editor"}

\* the controller after construction: the logo over the menu, focused
InitController ==
    /\ view_stack = <<"menu", "logo">>
    /\ focus = [u \in Units |-> u = "logo"]
    /\ index = 0
    /\ queue = <<>>
    /\ enqueued = <<>>
    /\ log = <<>>

\* the menu of the program before any key
InitMenu ==
    /\ items = AppMenuItems
    /\ spinning = FALSE
    /\ trail = <<0>>
    /\ old_trail = <<0>>

\* Changeable: the class attribute `changed = True`; no draw call yet
InitChangeable ==
    /\ menu_changed = TRUE
    /\ draws = <<>>

\* TextDisplay.__init__ (line_offset) and a window that nothing was drawn on
InitDisplay ==
    /\ line_offset = 0
    /\ height = 1
    /\ screen = <<>>
    /\ draw_raised = FALSE
    /\ rendered = FALSE

\* a text display that has not been drawn
InitTextDisplay ==
    /\ display_text = <<>>
    /\ line = <<>>
    /\ heading_level = 0
    /\ width = 1
    /\ wrapped = <<>>
    /\ InitDisplay

InitLib == InitMenu /\ InitChangeable /\ InitTextDisplay

----------------------------------------------------------------------------
(* The status line on its own: keys and status-line commands in any order  *)

\* the characters the modelled user types
Chars == {"q", "w", " "}

\* the keys sent to the status line
SLKeys ==
    Chars \cup BackspaceKeys \cup EnterKeys
    \cup {EscKey, "KEY_DC", "KEY_LEFT", "KEY_RIGHT", "553", "568",
          "KEY_HOME", "KEY_END", "KEY_UP"}

Sp == <<" ">>

\* left-slot texts put there by SetStatusLineTextCommand(_, LEFT)
Vocabulary ==
    {w_help, w_info, w_q, w_quit, w_qf, w_quitf,
     w_w, w_write, w_wf, w_writef, w_o, w_open, w_of, w_openf, w_wq, w_wqf,
     w_w \o Sp \o <<"a">>, w_write \o Sp \o <<"a">>,
     w_wf \o Sp \o <<"a">>, w_writef \o Sp \o <<"a">>,
     w_o \o Sp \o <<"a">>, w_open \o Sp \o <<"a">>,
     w_of \o Sp \o <<"a">>, w_openf \o Sp \o <<"a">>,
     w_wq \o Sp \o <<"a">>, w_wqf \o Sp \o <<"a">>,
     Sp \o w_wq \o Sp \o Sp \o <<"a", " ", "b">> \o Sp,
     Sp \o w_wqf \o Sp \o <<"a", " ", "b">> \o Sp \o Sp,
     Sp \o w_help \o Sp, w_help \o Sp \o <<"a">>, w_info \o Sp \o <<"a">>,
     w_q \o Sp \o <<"a">>, w_quit \o Sp \o <<"a">>,
     <<"x">>, <<"x", " ", "a">>, <<"w", "q", "a">>, <<" ", "q", " ">>,
     <<" ">>}

\* status texts shown in the center and right slots
CenterTexts == {<<"Saved.">>}
RightTexts == {<<"[", "a", "]">>}

\* the status-line commands sent to the status line
SLCommands ==
    {SetStatusLineTextCommand(t, LEFT) : t \in Vocabulary}
    \cup {SetStatusLineTextCommand(t, CENTER) : t \in CenterTexts}
    \cup {SetStatusLineTextCommand(t, RIGHT) : t \in RightTexts}
    \cup {ClearStatusLineCommand}
    \cup {SetStatusLineStateCommand(s) : s \in {"NORMAL", "INSERT"}}

NoText == <<"-">>            \* `submitted` when the key was not Enter

\* StatusLine.__init__ (and the class attributes current_state, changed)
InitStatusLine ==
    /\ text = <<<<>>, <<>>, <<>>>>
    /\ cursor_offset = 0
    /\ current_state = "NORMAL"
    /\ changed = TRUE

\* no file operation
NoIO == [path |-> NONE, op |-> "none", ok |-> FALSE, previous_save_file |-> NONE]

InitObs ==
    /\ key = "None"
    /\ ret = <<>>
    /\ submitted = NoText
    /\ io = NoIO

\* Editor.__init__
InitEditor ==
    /\ score = <<>>
    /\ position = 0
    /\ current_file_path = NONE
    /\ changed_since_saving = FALSE
    /\ previous_repeatable_command = NoCommand
    /\ editor_changed = TRUE
    /\ unsaved = FALSE

\* the keys the model sends in a state: text-changing keys only on short text
KeyAllowed(k) ==
    /\ (k \in BackspaceKeys \cup {"KEY_DC"}) => Len(text[1]) <= MaxLen
    /\ (k \in Chars \cup {"KEY_UP"}) => Len(text[1]) + Len(KeyStr(k)) <= MaxLen

\* Component.handle_keypress of the status line
SLKey(k) ==
    /\ KeyAllowed(k)
    /\ LET r == StatusLineKeypress(text, cursor_offset, current_state, k)
       IN  /\ text' = r.text
           /\ cursor_offset' = r.cursor_offset
           /\ ret' = r.ret
    /\ changed' = TRUE
    /\ key' = k
    /\ submitted' = IF k \in EnterKeys THEN text[1] ELSE NoText
    /\ UNCHANGED <<current_state, io, edVars, runVars, appVars, libVars>>

\* Component.handle_command of the status line
SLCommand(c) ==
    /\ LET r == StatusLineCommand(text, cursor_offset, current_state, c)
       IN  /\ text' = r.text
           /\ cursor_offset' = r.cursor_offset
           /\ current_state' = r.current_state
           /\ changed' = r.changed
    /\ key' = "command"
    /\ ret' = <<>>
    /\ submitted' = NoText
    /\ UNCHANGED <<io, edVars, runVars, appVars, libVars>>

SLPress == \E k \in SLKeys : SLKey(k)
SLHandle == \E c \in SLCommands : SLCommand(c)

InitSL == InitStatusLine /\ InitObs /\ InitEditor /\ InitInterface /\ InitController
    /\ InitLib
NextSL == SLPress \/ SLHandle
SpecSL == InitSL /\ [][NextSL]_vars

----------------------------------------------------------------------------
(* Claims about StatusLine._handle_keypress (SpecSL) *)

\* n spaces
RECURSIVE Spaces(_)
Spaces(n) == IF n = 0 THEN <<>> ELSE Sp \o Spaces(n - 1)

\* C6: after Enter, in either mode and for every left-slot content, the left
\* slot is empty, the cursor offset is 0 and the returned list starts with
\* ToggleFocus, every other command of the list coming after it.
C6_EnterClearsAndTogglesFirst ==
    key \in EnterKeys =>
        /\ text[1] = <<>>
        /\ cursor_offset = 0
        /\ Len(ret) >= 1
        /\ ret[1] = ToggleFocusCommand
        /\ \A i \in 2..Len(ret) : ret[i].type # "ToggleFocus"

C6_Witness ==
    /\ key \in EnterKeys
    /\ current_state = "INSERT"
    /\ submitted = w_wq \o Sp \o <<"a">>
    /\ Len(ret) = 2

\* C7: in Normal mode `wq [path]` returns exactly
\* [ToggleFocus, Save(path, forced=False), Quit()] and `wq! [path]` the same
\* with forced=True; a given path is carried unchanged.
C7Paths == {<<"a">>, <<"a", " ", "b">>}

C9_InsertVerbatim ==
    (key \in EnterKeys /\ current_state = "INSERT") =>
        ret = <<ToggleFocusCommand, InsertCommand(submitted)>>

C9_Witness ==
    /\ key \in EnterKeys
    /\ current_state = "INSERT"
    /\ submitted = <<" ", "q", " ">>
    /\ ret = <<ToggleFocusCommand, InsertCommand(<<" ", "q", " ">>)>>

\* the keywords of the status-line grammar
Keywords ==
    {w_help, w_info, w_q, w_quit, w_qf, w_quitf, w_w, w_write, w_wf, w_writef,
     w_o, w_open, w_of, w_openf, w_wq, w_wqf}

\* text matching no production: empty or blank, an unknown keyword, or
\* q / quit / help / info followed by arguments
Unrecognized(t) ==
    LET toks == Split(t)
    IN  \/ toks = <<>>
        \/ toks[1] \notin Keywords
        \/ toks[1] \in {w_q, w_quit, w_help, w_info} /\ Len(toks) > 1

\* C10: in Normal mode, Enter on unrecognized text returns exactly
\* [ToggleFocus], empties the left slot and leaves the center and right
\* slots as they were.
C10_UnrecognizedOnlyToggles ==
    [][(key' \in EnterKeys /\ current_state = "NORMAL" /\ Unrecognized(text[1]))
        => /\ ret' = <<ToggleFocusCommand>>
           /\ text'[1] = <<>>
           /\ text'[2] = text[2]
           /\ text'[3] = text[3]]_vars

C10_Witness ==
    /\ key \in EnterKeys
    /\ current_state = "NORMAL"
    /\ submitted = w_q \o Sp \o <<"a">>
    /\ ret = <<ToggleFocusCommand>>
    /\ text = <<<<>>, <<"Saved.">>, <<"[", "a", "]">>>>

\* C11: in every reachable state whose left slot is empty, Backspace returns
\* exactly [ToggleFocus] and leaves the three text slots as they were.
C11_BackspaceOnEmptyToggles ==
    [][(key' \in BackspaceKeys /\ text[1] = <<>>)
        => /\ ret' = <<ToggleFocusCommand>>
           /\ text' = text]_vars

\* C12: after any sequence of keys and status-line commands the cursor
\* offset lies within the left-slot buffer: 0 <= cursor_offset <= len(text[0]).
C12_CursorWithinBuffer ==
    0 <= cursor_offset /\ cursor_offset <= Len(text[1])

----------------------------------------------------------------------------
(* components.Editor *)

\* list.insert(i, x)
PyInsert(s, i, x) == PySlice(s, 0, i) \o <<x>> \o PyFrom(s, i)

\* Editor.__get_unsaved_changes_warning
UnsavedChangesWarning ==
    SetStatusLineTextCommand(<<"Unsaved changes (maybe append '!'?).">>, CENTER)

\* Editor.__get_empty_name_warning
EmptyNameWarning == SetStatusLineTextCommand(<<"No file name.">>, CENTER)

\* Editor.get_file_name_command
get_file_name_command(path) ==
    IF path = NONE THEN SetStatusLineTextCommand(<<"[no file]">>, RIGHT)
    ELSE SetStatusLineTextCommand(<<"[">> \o path \o <<"]">>, RIGHT)

\* Editor.__save_path_valid; isfile is os.path.isfile(path)
save_path_valid(path, cfp, isfile) ==
    IF isfile /\ path # cfp
    THEN <<SetStatusLineTextCommand(<<"The file already exists.">>, CENTER)>>
    ELSE <<>>

\* what the file system can answer for a path: "" names no file and cannot
\* be opened
FsAllows(path, isfile, ok) == (path = <<>>) => (~isfile /\ ~ok)

\* how the try block of __handle_save_command can end: "ok" (nothing raised),
\* or an exception raised by open ("open"), by abjad.f writing the score
\* ("dump"), or by the with statement closing the file after its body has
\* run ("close": the buffered text is flushed then)
WriteOutcomes == {"ok", "open", "dump", "close"}

\* "" cannot be opened
FsWrites(path, written) == (path = <<>>) => (written = "open")

\* Editor.__handle_save_command.  isfile: os.path.isfile(path); written: how
\* the try block ended.
HandleSave(c, cfp, css, isfile, written) ==
    LET previous_save_file == cfp
        keep(r) == [current_file_path |-> cfp, changed_since_saving |-> css,
                    ret |-> r,
                    io |-> [NoIO EXCEPT !.previous_save_file = previous_save_file]]
    IN  IF c.path = NONE /\ cfp = NONE THEN keep(<<EmptyNameWarning>>)
        ELSE
            LET path == IF c.path = NONE THEN cfp ELSE c.path
                file_status == save_path_valid(path, cfp, isfile)
                wrote(ok) == [path |-> path, op |-> "write", ok |-> ok,
                              previous_save_file |-> previous_save_file]
            IN  IF Len(file_status) # 0 /\ ~c.forced THEN keep(file_status)
                ELSE IF written = "ok" THEN
                    [current_file_path |-> path,
                     changed_since_saving |-> FALSE,
                     ret |-> <<get_file_name_command(path),
                               SetStatusLineTextCommand(<<"Saved.">>, CENTER)>>,
                     io |-> wrote(TRUE)]
                ELSE
                    \* changed_since_saving = False is the last statement
                    \* of the with body: it has run when closing raises
                    [current_file_path |-> previous_save_file,
                     changed_since_saving |-> IF written = "close" THEN FALSE
                                              ELSE css,
                     ret |-> <<SetStatusLineTextCommand(
                                   <<"Error writing to file.">>, CENTER)>>,
                     io |-> wrote(FALSE)]

\* an open that does not look at the unsaved changes
HandleOpen_Unguarded(c, sc, cfp, css, read_ok, new_score) ==
    [score |-> new_score, current_file_path |-> c.path,
     changed_since_saving |-> FALSE,
     ret |-> <<get_file_name_command(c.path),
               SetStatusLineTextCommand(<<"Opened.">>, CENTER)>>,
     io |-> [path |-> c.path, op |-> "read", ok |-> TRUE,
             previous_save_file |-> NONE]]

\* Editor.__handle_open_command.  read_ok: the try block raised nothing;
\* new_score: what abjad.Score(f.read())[0] gave.
HandleOpen(c, sc, cfp, css, read_ok, new_score) ==
    LET keep(r, o) == [score |-> sc, current_file_path |-> cfp,
                       changed_since_saving |-> css, ret |-> r, io |-> o]
        read(ok) == [path |-> c.path, op |-> "read", ok |-> ok,
                     previous_save_file |-> NONE]
    IN  IF css /\ ~c.forced THEN keep(<<UnsavedChangesWarning>>, NoIO)
        ELSE IF c.path = NONE THEN keep(<<EmptyNameWarning>>, NoIO)
        ELSE IF read_ok THEN
            [score |-> new_score, current_file_path |-> c.path,
             changed_since_saving |-> FALSE,
             ret |-> <<get_file_name_command(c.path),
                       SetStatusLineTextCommand(<<"Opened.">>, CENTER)>>,
             io |-> read(TRUE)]
        ELSE keep(<<SetStatusLineTextCommand(<<"Error reading the file.">>,
                                             CENTER)>>, read(FALSE))

\* a quit that does not look at the forced flag
HandleQuit_IgnoresForced(c, css) ==
    IF ~css THEN <<PopComponentCommand>> ELSE <<UnsavedChangesWarning>>

\* Editor.__handle_quit_command
HandleQuit(c, css) ==
    IF ~css \/ c.forced THEN <<PopComponentCommand>>
    ELSE <<UnsavedChangesWarning>>

\* an insert that remembers the command as repeatable even when parsing it
\* failed
HandleInsert_RemembersFailed(c, sc, pos, css, prc, parse_ok) ==
    [score |-> sc, position |-> pos, changed_since_saving |-> css,
     previous_repeatable_command |-> c,
     ret |-> <<SetStatusLineTextCommand(
                   <<"The string could not be parsed.">>, CENTER)>>,
     io |-> [path |-> NONE, op |-> "parse", ok |-> FALSE,
             previous_save_file |-> NONE]]

\* Editor.__handle_insert_command.  parse_ok: the try block (the abjad
\* constructor and score.insert) raised nothing.
HandleInsert(c, sc, pos, css, prc, parse_ok) ==
    LET keep(r, o) == [score |-> sc, position |-> pos,
                       changed_since_saving |-> css,
                       previous_repeatable_command |-> prc, ret |-> r, io |-> o]
        parsed(ok) == [path |-> NONE, op |-> "parse", ok |-> ok,
                       previous_save_file |-> NONE]
    IN  IF Len(c.text) = 0 THEN keep(<<>>, NoIO)
        ELSE IF parse_ok THEN
            [score |-> PyInsert(sc, pos, c.text), position |-> pos + 1,
             changed_since_saving |-> TRUE,
             previous_repeatable_command |-> c, ret |-> <<>>,
             io |-> parsed(TRUE)]
        ELSE keep(<<SetStatusLineTextCommand(
                        <<"The string could not be parsed.">>, CENTER)>>,
                  parsed(FALSE))

\* the scores a file may hold
Items == {<<"a">>, <<"r">>}
RECURSIVE ScoresOfLen(_)
ScoresOfLen(n) ==
    IF n = 0 THEN {<<>>}
    ELSE {<<x>> \o t : x \in Items, t \in ScoresOfLen(n - 1)}
Scores == UNION {ScoresOfLen(n) : n \in 0..MaxScore}

\* Editor._handle_command: dispatch on the command's class; `unsaved` follows what the
\* handler did
EditorCommand(c) ==
    /\ IF c = NoCommand THEN
           /\ ret' = <<>> /\ io' = NoIO
           /\ UNCHANGED <<score, position, current_file_path, changed_since_saving,
                          previous_repeatable_command>>
       ELSE IF c.type = "Insert" THEN
           \E parse_ok \in BOOLEAN :
               LET r == HandleInsert(c, score, position, changed_since_saving,
                                     previous_repeatable_command, parse_ok)
               IN  /\ score' = r.score
                   /\ position' = r.position
                   /\ changed_since_saving' = r.changed_since_saving
                   /\ previous_repeatable_command' = r.previous_repeatable_command
                   /\ ret' = r.ret
                   /\ io' = r.io
                   /\ UNCHANGED current_file_path
       ELSE IF c.type = "Save" THEN
           \E isfile \in BOOLEAN, written \in WriteOutcomes :
               LET path == IF c.path = NONE THEN current_file_path ELSE c.path
                   r == HandleSave(c, current_file_path, changed_since_saving,
                                   isfile, written)
               IN  /\ FsAllows(path, isfile, written = "ok")
                   /\ FsWrites(path, written)
                   /\ current_file_path' = r.current_file_path
                   /\ changed_since_saving' = r.changed_since_saving
                   /\ ret' = r.ret
                   /\ io' = r.io
                   /\ UNCHANGED <<score, position, previous_repeatable_command>>
       ELSE IF c.type = "Quit" THEN
           /\ ret' = HandleQuit(c, changed_since_saving)
           /\ io' = NoIO
           /\ UNCHANGED <<score, position, current_file_path, changed_since_saving,
                          previous_repeatable_command>>
       ELSE IF c.type = "Open" THEN
           \E read_ok \in BOOLEAN, new_score \in Scores :
               LET r == HandleOpen(c, score, current_file_path,
                                   changed_since_saving, read_ok, new_score)
               IN  /\ FsAllows(c.path, FALSE, read_ok)
                   /\ score' = r.score
                   /\ current_file_path' = r.current_file_path
                   /\ changed_since_saving' = r.changed_since_saving
                   /\ ret' = r.ret
                   /\ io' = r.io
                   /\ UNCHANGED <<position, previous_repeatable_command>>
       ELSE
           /\ ret' = <<>> /\ io' = NoIO
           /\ UNCHANGED <<score, position, current_file_path, changed_since_saving,
                          previous_repeatable_command>>
    /\ unsaved' = IF io'.op = "parse" /\ io'.ok THEN TRUE
                  ELSE IF io'.op \in {"write", "read"} /\ io'.ok THEN FALSE
                  ELSE unsaved

\* Editor._handle_keypress
EditorKeypress(k) ==
    IF k = ":" THEN
        /\ ret' = <<ToggleFocusCommand, SetStatusLineStateCommand("NORMAL")>>
        /\ io' = NoIO
        /\ UNCHANGED edVars
    ELSE IF k = "i" THEN
        /\ ret' = <<ToggleFocusCommand, SetStatusLineStateCommand("INSERT")>>
        /\ io' = NoIO
        /\ UNCHANGED edVars
    ELSE IF k = "." THEN
        /\ editor_changed' = TRUE
        /\ EditorCommand(previous_repeatable_command)
    ELSE
        /\ ret' = <<>> /\ io' = NoIO
        /\ UNCHANGED edVars

----------------------------------------------------------------------------
(* components.Menu, LogoDisplay and TextDisplay *)

\* __move_index without the loop over the spacers
skip_spacers_Stays(its, i, delta) == i

\* the while loop of Menu.__move_index.  On a spacer at the end it moves
\* towards, the loop assigns the index it already has, for ever: the result
\* is then the index of that spacer, and the call does not return.
RECURSIVE skip_spacers(_, _, _)
skip_spacers(its, i, delta) ==
    LET step == Min(Max(i + (IF delta > 0 THEN 1 ELSE -1), 0), Len(its) - 1)
    IN  IF its[i + 1].spacer /\ step # i
            THEN skip_spacers(its, step, delta)
            ELSE i

\* __move_index wrapping at the ends
move_index_Wraps(its, i, delta) ==
    OldMoveIndex(its, i, delta)

\* Menu.__move_index
move_index(its, i, delta) ==
    skip_spacers(its, Min(Max(i + delta, 0), Len(its) - 1), delta)

\* Menu.update_status_line
update_status_line(its, i) ==
    <<ClearStatusLineCommand,
      SetStatusLineTextCommand(its[i + 1].tooltip, CENTER)>>

\* Menu._handle_keypress: the new index and the returned commands
MenuKeypress(its, i, k) ==
    IF k \in {"j", "KEY_DOWN"} THEN
        [index |-> move_index(its, i, 1),
         ret |-> update_status_line(its, move_index(its, i, 1))]
    ELSE IF k \in {"k", "KEY_UP"} THEN
        [index |-> move_index(its, i, -1),
         ret |-> update_status_line(its, move_index(its, i, -1))]
    ELSE IF k = "^D" THEN
        [index |-> move_index(its, i, 3),
         ret |-> update_status_line(its, move_index(its, i, 3))]
    ELSE IF k = "^U" THEN
        [index |-> move_index(its, i, -3),
         ret |-> update_status_line(its, move_index(its, i, -3))]
    ELSE IF k \in EnterKeys \cup {"l", "KEY_RIGHT"} THEN
        [index |-> i, ret |-> its[i + 1].commands]
    ELSE IF k = ":" THEN
        [index |-> i,
         ret |-> <<ToggleFocusCommand, SetStatusLineStateCommand("NORMAL")>>]
    ELSE [index |-> i, ret |-> <<>>]

\* LogoDisplay._handle_keypress
LogoKeypress(k) == IF k \in EnterKeys THEN <<PopComponentCommand>> ELSE <<>>

\* TextDisplay._handle_keypress: the returned commands (the scroll keys
\* j, k and Enter return none)
TextDisplayKeypress(k) == IF k = "q" THEN <<PopComponentCommand>> ELSE <<>>

\* a component that hands the command it was given back to the controller
QuitPops_HandsBack(c) == <<c>>

\* Menu, LogoDisplay and TextDisplay._handle_command
QuitPops(c) == IF c.type = "Quit" THEN <<PopComponentCommand>> ELSE <<>>

----------------------------------------------------------------------------
(* The controller of the Command components.  Its resolution loop is not   *)
(* among the sources; it follows section 4.1 of the design: a work queue   *)
(* drained first-in first-out, PopView, PushView and ToggleFocus resolved  *)
(* by the controller, status-line commands forwarded to the status line    *)
(* and every other command to the active component.                        *)

\* the commands a component returns when it is given the focus: the menu
\* and the editor refresh their status-line labels
GainedFocus(c, i, cfp) ==
    IF c = "menu" THEN update_status_line(AppMenuItems, i)
    ELSE IF c = "editor" THEN <<get_file_name_command(cfp)>>
    ELSE <<>>

\* commands returned by a handler queued ahead of the commands waiting
Enqueue_DepthFirst(q, cs) == cs \o q

\* commands returned by a handler go to the tail of the queue
Enqueue(q, cs) == q \o cs

\* ToggleFocus giving the status line the focus without taking it from the
\* active component
ToggleFocus_KeepsComponent(st, f, i, cfp) ==
    IF f["status_line"]
        THEN [view_stack |-> st,
              focus |-> [f EXCEPT !["status_line"] = FALSE, ![st[Len(st)]] = TRUE],
              process |-> "running",
              ret |-> GainedFocus(st[Len(st)], i, cfp)]
        ELSE [view_stack |-> st,
              focus |-> [f EXCEPT !["status_line"] = TRUE],
              process |-> "running",
              ret |-> <<>>]

\* ToggleFocus: flip the focus between the status line and the active
\* component
ToggleFocus(st, f, i, cfp) ==
    IF f["status_line"]
        THEN [view_stack |-> st,
              focus |-> [f EXCEPT !["status_line"] = FALSE, ![st[Len(st)]] = TRUE],
              process |-> "running",
              ret |-> GainedFocus(st[Len(st)], i, cfp)]
        ELSE [view_stack |-> st,
              focus |-> [f EXCEPT !["status_line"] = TRUE, ![st[Len(st)]] = FALSE],
              process |-> "running",
              ret |-> <<>>]

\* PushView(name): append the named component, unfocus the status line,
\* focus the new tail; an unknown name is fatal
PushView(st, f, name, i, cfp) ==
    IF name \in DOMAIN components THEN
        [view_stack |-> Append(st, components[name]),
         focus |-> [f EXCEPT !["status_line"] = FALSE, ![components[name]] = TRUE],
         process |-> "running",
         ret |-> GainedFocus(components[name], i, cfp)]
    ELSE [view_stack |-> st, focus |-> f, process |-> "crashed", ret |-> <<>>]

\* PopView: remove the tail; the process terminates when nothing is left,
\* otherwise the new tail gains the focus
PopView(st, f, i, cfp) ==
    IF Len(st) = 1 THEN
        [view_stack |-> <<>>, focus |-> f, process |-> "exited", ret |-> <<>>]
    ELSE
        [view_stack |-> Pop(st),
         focus |-> [f EXCEPT ![st[Len(st) - 1]] = TRUE],
         process |-> "running",
         ret |-> GainedFocus(st[Len(st) - 1], i, cfp)]

----------------------------------------------------------------------------
(* The editor on its own: it receives the editor commands the status line  *)
(* emits, one at a time and in any order, and its own keys.                *)

\* the texts submitted in Insert mode
InsertTexts == {<<>>, <<"a">>, <<"r">>}

\* the commands of a list that Interface forwards to the active component
EditorDomain(cs) ==
    {cs[i] : i \in {j \in 1..Len(cs) :
                      cs[j].type \in {"Insert", "Save", "Open", "Quit"}}}

EdKeys == {":", "i", ".", "j"}

\* inserts are sent while the score and the insert position are small
InsertAllowed == Len(score) < MaxScore /\ position <= MaxScore

\* Component.handle_command of the editor, for a command that Enter on the
\* status line returned for the text t in the mode m
EdCommand(m, t, c) ==
    /\ c \in EditorDomain(EnterCommands(m, t))
    /\ c.type = "Insert" => InsertAllowed
    /\ EditorCommand(c)
    /\ key' = "command"
    /\ submitted' = t
    /\ UNCHANGED <<slVars, editor_changed, runVars, appVars, libVars>>

\* Component.handle_keypress of the editor
EdKey(k) ==
    /\ (k = "." /\ previous_repeatable_command # NoCommand) => InsertAllowed
    /\ EditorKeypress(k)
    /\ key' = k
    /\ submitted' = NoText
    /\ UNCHANGED <<slVars, runVars, appVars, libVars>>

EdHandle ==
    \/ \E t \in Vocabulary : \E c \in EditorDomain(EnterCommands("NORMAL", t)) :
          EdCommand("NORMAL", t, c)
    \/ \E t \in InsertTexts : \E c \in EditorDomain(EnterCommands("INSERT", t)) :
          EdCommand("INSERT", t, c)
EdPress == \E k \in EdKeys : EdKey(k)

InitEd == InitStatusLine /\ InitObs /\ InitEditor /\ InitInterface /\ InitController
    /\ InitLib
NextEd == EdHandle \/ EdPress
SpecEd == InitEd /\ [][NextEd]_vars

\* C8: `w` or `write` with no path, submitted in Normal mode and handled by
\* the editor while it has a current file path, is a save to that path.
C8_WriteWithoutPathSavesCurrent ==
    (key = "command" /\ submitted \in {w_w, w_write}
        /\ io.previous_save_file # NONE)
    => (io.op = "write" /\ io.path = io.previous_save_file)

\* the first word of a submitted text is one of the words ws
FirstWordIn(t, ws) == Split(t) # <<>> /\ Split(t)[1] \in ws

\* C13: a QuitCommand handled by the editor returns [PopComponent] if and
\* only if it is forced or there are no unsaved changes; with unsaved changes
\* and forced=False it returns only the unsaved-changes message, and the
\* editor's state is unchanged.
C13_QuitPopsIffForcedOrSaved ==
    [][(key' = "command" /\ submitted' \in {w_q, w_quit, w_qf, w_quitf})
        => LET forced == submitted' \in {w_qf, w_quitf}
           IN  /\ (ret' = <<PopComponentCommand>>)
                      <=> (forced \/ ~changed_since_saving)
               /\ (~forced /\ changed_since_saving)
                      => /\ ret' = <<UnsavedChangesWarning>>
                         /\ UNCHANGED edVars]_vars

C13_Witness ==
    /\ key = "command"
    /\ submitted = w_quit
    /\ changed_since_saving
    /\ score # <<>>
    /\ ret = <<UnsavedChangesWarning>>

\* C14: an OpenCommand with forced=False handled while there are unsaved
\* changes returns only the unsaved-changes message, attempts no read and
\* leaves the score, the insert position, the current file path and the
\* unsaved-changes flag as they were; the forced variant goes on to read
\* the file.
C14_UnforcedOpenRejected ==
    [][(key' = "command" /\ changed_since_saving)
        => /\ FirstWordIn(submitted', {w_o, w_open})
              => /\ ret' = <<UnsavedChangesWarning>>
                 /\ io'.op = "none"
                 /\ UNCHANGED <<score, position, current_file_path,
                                changed_since_saving>>
           /\ FirstWordIn(submitted', {w_of, w_openf})
              => io'.op = "read"]_vars

C14_Witness ==
    /\ key = "command"
    /\ submitted = w_open \o Sp \o <<"a">>
    /\ changed_since_saving
    /\ score # <<>>
    /\ io.op = "none"
    /\ ret = <<UnsavedChangesWarning>>

\* C15: when a save fails while writing the file, the current file path is
\* what it was before the command, the unsaved-changes flag and the score
\* are unchanged, and the handler returns a single status message that is
\* not a filename badge.
C15_FailedSaveLeavesState ==
    [][(io'.op = "write" /\ ~io'.ok)
        => /\ current_file_path' = current_file_path
           /\ changed_since_saving' = changed_since_saving
           /\ score' = score
           /\ Len(ret') = 1
           /\ ret'[1].type = "SetStatusLineText"
           /\ ret'[1].position # RIGHT]_vars

\* C16: an InsertCommand whose text cannot be parsed returns a center-slot
\* status message and leaves the score, the insert position, the
\* unsaved-changes flag and the remembered repeatable command unchanged.
C16_FailedInsertLeavesState ==
    [][(io'.op = "parse" /\ ~io'.ok)
        => /\ Len(ret') = 1
           /\ ret'[1].type = "SetStatusLineText"
           /\ ret'[1].position = CENTER
           /\ UNCHANGED <<score, position, changed_since_saving,
                          previous_repeatable_command>>]_vars

C16_Witness ==
    /\ io.op = "parse" /\ ~io.ok
    /\ submitted = <<"r">>
    /\ score = <<<<"a">>>>
    /\ position = 1
    /\ changed_since_saving
    /\ previous_repeatable_command = InsertCommand(<<"a">>)
    /\ ret = <<SetStatusLineTextCommand(<<"The string could not be parsed.">>,
                                        CENTER)>>

----------------------------------------------------------------------------
(* Interface.run: one pass of the loop per event                           *)

\* the left-slot texts the modelled user types towards
RunVocabulary ==
    {<<":">> \o w_q, <<":">> \o w_quit, <<":">> \o w_help, <<":">> \o w_info,
     <<":">> \o c_new, <<":">> \o c_append_state \o Sp \o w_info,
     <<":">> \o c_append_state \o Sp \o <<"x">>, <<">", "a">>}

RunChars == UNION {{t[i] : i \in 2..Len(t)} : t \in RunVocabulary}

\* the keys read by get_wch
RunKeys == RunChars \cup {":", "\\n", EscKey, "KEY_BACKSPACE", "j", "k", "l", "q", "i"}

IsPrefix(p, t) == Len(p) <= Len(t) /\ SubSeq(t, 1, Len(p)) = p

\* the keys the model sends in a state: while the status line is focused
\* only keys that keep the left slot a prefix of the vocabulary
RunKeyAllowed(k) ==
    IF status_line.focused
        THEN \E t \in RunVocabulary :
                IsPrefix(OldStatusLineKeypress(status_line, k).status_line.left, t)
        ELSE k \in {":", "\\n", "j", "k", "l", "q", "i"}

\* the body of the loop for a key: handle_keypress, then the command
Press(k) ==
    /\ process = "running"
    /\ RunKeyAllowed(k)
    /\ \E h \in {OldHandleKeypress(state_stack[Len(state_stack)], status_line,
                                    menu_index, k)} :
       \E r \in {ResolveCommand(h.command, state_stack, h.status_line)} :
           /\ Len(r.state_stack) <= MaxStack
           /\ run_k' = k
           /\ run_command' = h.command
           /\ menu_index' = h.index
           /\ state_stack' = IF h.raised THEN state_stack ELSE r.state_stack
           /\ status_line' = r.status_line
           /\ process' = IF h.raised THEN "crashed" ELSE r.process
           /\ pushed' = Track(pushed, h.command, state_stack)
           /\ undone' = TrackUndone(undone, pushed, h.command)
    /\ fallback' = fallback
    /\ UNCHANGED <<slVars, obsVars, edVars, appVars, libVars>>

\* the body of the loop for KEY_RESIZE: resize_windows, then the command
\* the local `command` still holds, then the refresh, which raises
\* curses.error when the terminal is now too small to draw in
ResizeTo(too_small) ==
    /\ process = "running"
    /\ \E r \in {ResolveCommand(run_command, state_stack, status_line)} :
           /\ Len(r.state_stack) <= MaxStack
           /\ run_k' = "KEY_RESIZE"
           /\ state_stack' = r.state_stack
           /\ status_line' = r.status_line
           /\ process' = r.process
           /\ pushed' = Track(pushed, run_command, state_stack)
           /\ undone' = TrackUndone(undone, pushed, run_command)
    /\ fallback' = too_small
    /\ UNCHANGED <<run_command, menu_index, slVars, obsVars, edVars, appVars,
                   libVars>>

\* a resize to a size the components can be drawn in
Resize == ResizeTo(FALSE)

\* a resize to a size too small to draw in
Shrink == ResizeTo(TRUE)

RunPress == \E k \in RunKeys : Press(k)

InitRun == InitStatusLine /\ InitObs /\ InitEditor /\ InitInterface /\ InitController
    /\ InitLib
NextRun == RunPress \/ Resize
SpecRun == InitRun /\ [][NextRun]_vars

----------------------------------------------------------------------------
(* Claims about Interface.run (SpecRun) *)

\* C1: while the application runs the component stack holds at least one
\* component, and resolving a pop ("quit") on a stack of exactly one
\* component terminates the process.
C1_StackNeverEmpty ==
    /\ [](process = "running" => Len(state_stack) >= 1)
    /\ [][(process = "running" /\ Len(state_stack) = 1
            /\ run_command' = <<w_quit>>)
          => process' = "exited"]_vars

C1_Witness ==
    /\ process = "exited"
    /\ state_stack = <<>>
    /\ run_command = <<w_quit>>
    /\ run_k = "\\n"

\* C4: the process stops running only in a pass that handles a key whose
\* command is a pop on a stack of exactly one component; a pass for a resize
\* never stops it.
C4_OnlyLastPopTerminates ==
    [][(process = "running" /\ process' # "running")
        => /\ run_k' # "KEY_RESIZE"
           /\ run_command' = <<w_quit>>
           /\ Len(state_stack) = 1
           /\ process' = "exited"]_vars

\* C5 (as amended): a pop that follows pushes made by append_state leaves
\* the stack as it was before the last of them not yet undone; so k
\* append_state pushes followed by k pops restore the stack.
C5_AppendsThenPopsRestore ==
    [][(run_command' = <<w_quit>> /\ pushed # <<>> /\ pushed[Len(pushed)].pure)
        => state_stack' = pushed[Len(pushed)].stack]_vars

C5_Witness ==
    /\ undone = 2
    /\ pushed = <<>>
    /\ state_stack = <<"menu">>
    /\ process = "running"

\* C5 (as stated): a pop that follows pushes of any kind (append_state, or
\* the one-word help / info / new) leaves the stack as it was before the
\* last push not yet undone.
C5_PushesThenPopsRestore ==
    [][(run_command' = <<w_quit>> /\ pushed # <<>>)
        => state_stack' = pushed[Len(pushed)].stack]_vars

----------------------------------------------------------------------------
(* The controller loop: read a key when the queue is empty, otherwise      *)
(* resolve the command at the head of the queue                            *)

\* the left-slot texts the modelled user types towards in Normal mode and
\* in Insert mode
AppVocabulary == {w_q, w_help, w_info, w_wq \o Sp \o <<"a">>}

InsertVocabulary == {<<"a">>}

AppChars == UNION {{t[i] : i \in 1..Len(t)} : t \in AppVocabulary}

\* the keys sent to the active component
ComponentKeys == {":", "i", ".", "j", "k", "l", "q", "\\n"}

AppKeys == AppChars \cup ComponentKeys \cup {EscKey, "KEY_BACKSPACE"}

\* the keys the model sends in a state: to the focused status line only
\* keys that keep the left slot a prefix of the vocabulary; the scroll keys
\* of a text display are not sent
AppKeyAllowed(k) ==
    IF focus["status_line"]
        THEN \E t \in (IF current_state = "NORMAL" THEN AppVocabulary ELSE InsertVocabulary) :
                IsPrefix(StatusLineKeypress(text, cursor_offset, current_state,
                                            k).text[1], t)
        ELSE /\ k \in ComponentKeys
             /\ IsTextDisplay(view_stack[Len(view_stack)])
                    => k \notin {"j", "k", "\\n"}

\* the commands of a list fit the bounds: a push only while the stack is
\* short, an insert only while the score is
CommandsFit(cs) ==
    \A n \in 1..Len(cs) :
        /\ cs[n].type = "PushComponent" => Len(view_stack) < MaxStack
        /\ cs[n].type = "Insert" => InsertAllowed

\* a key is routed to whichever of the status line and the active component
\* holds the focus; the commands returned start a new queue
AppKey(k) ==
    /\ process = "running"
    /\ queue = <<>>
    /\ AppKeyAllowed(k)
    /\ LET top == view_stack[Len(view_stack)]
       IN  IF focus["status_line"] THEN
               \E r \in {StatusLineKeypress(text, cursor_offset, current_state, k)} :
                   /\ text' = r.text
                   /\ cursor_offset' = r.cursor_offset
                   /\ ret' = r.ret
                   /\ changed' = TRUE
                   /\ io' = NoIO
                   /\ UNCHANGED <<current_state, edVars, index>>
           ELSE IF ~focus[top] THEN
               /\ ret' = <<>>
               /\ io' = NoIO
               /\ UNCHANGED <<slVars, edVars, index>>
           ELSE IF top = "editor" THEN
               /\ (k = "." /\ previous_repeatable_command # NoCommand)
                      => InsertAllowed
               /\ EditorKeypress(k)
               /\ UNCHANGED <<slVars, index>>
           ELSE IF top = "menu" THEN
               \E r \in {MenuKeypress(AppMenuItems, index, k)} :
                   /\ index' = r.index
                   /\ ret' = r.ret
                   /\ io' = NoIO
                   /\ UNCHANGED <<slVars, edVars>>
           ELSE
               /\ ret' = IF top = "logo" THEN LogoKeypress(k)
                         ELSE TextDisplayKeypress(k)
               /\ io' = NoIO
               /\ UNCHANGED <<slVars, edVars, index>>
    /\ CommandsFit(ret')
    /\ queue' = ret'
    /\ enqueued' = ret'
    /\ log' = <<>>
    /\ key' = k
    /\ submitted' = IF focus["status_line"] /\ k \in EnterKeys THEN text[1]
                    ELSE NoText
    /\ UNCHANGED <<view_stack, focus, runVars, libVars>>

\* resolve the command at the head of the queue
AppResolve ==
    /\ process = "running"
    /\ queue # <<>>
    /\ LET c == Head(queue)
           top == view_stack[Len(view_stack)]
       IN  IF c.type \in {"PopComponent", "PushComponent", "ToggleFocus"} THEN
               \E r \in {IF c.type = "PopComponent"
                            THEN PopView(view_stack, focus, index,
                                         current_file_path)
                         ELSE IF c.type = "PushComponent"
                            THEN PushView(view_stack, focus, c.component, index,
                                          current_file_path)
                         ELSE ToggleFocus(view_stack, focus, index,
                                          current_file_path)} :
                   /\ view_stack' = r.view_stack
                   /\ focus' = r.focus
                   /\ process' = r.process
                   /\ ret' = r.ret
                   /\ io' = NoIO
                   /\ UNCHANGED <<slVars, edVars>>
           ELSE IF c.type \in {"SetStatusLineText", "ClearStatusLine",
                               "SetStatusLineState"} THEN
               \E r \in {StatusLineCommand(text, cursor_offset, current_state, c)} :
                   /\ text' = r.text
                   /\ cursor_offset' = r.cursor_offset
                   /\ current_state' = r.current_state
                   /\ changed' = r.changed
                   /\ ret' = <<>>
                   /\ io' = NoIO
                   /\ UNCHANGED <<edVars, view_stack, focus, process>>
           ELSE IF top = "editor" THEN
               /\ EditorCommand(c)
               /\ UNCHANGED <<editor_changed, slVars, view_stack, focus, process>>
           ELSE
               /\ ret' = QuitPops(c)
               /\ io' = NoIO
               /\ UNCHANGED <<edVars, slVars, view_stack, focus, process>>
    /\ queue' = Enqueue(Tail(queue), ret')
    /\ enqueued' = enqueued \o ret'
    /\ log' = Append(log, Head(queue))
    /\ key' = "command"
    /\ UNCHANGED <<submitted, index, oldVars, libVars>>

AppPress == \E k \in AppKeys : AppKey(k)

InitApp == InitStatusLine /\ InitObs /\ InitEditor /\ InitInterface /\ InitController
    /\ InitLib
NextApp == AppPress \/ AppResolve
SpecApp == InitApp /\ [][NextApp]_vars

----------------------------------------------------------------------------
(* Claims about the controller (SpecApp) *)

\* C2: between two input events (the queue is empty) exactly one of the
\* status line and the active component holds the focus.
C2_ExactlyOneFocused ==
    (process = "running" /\ queue = <<>>)
        => (focus["status_line"] # focus[view_stack[Len(view_stack)]])

C2_Witness ==
    /\ process = "running"
    /\ queue = <<>>
    /\ Len(log) >= 2
    /\ log[1] = ToggleFocusCommand
    /\ \E n \in 2..Len(log) : log[n] = PopComponentCommand
    /\ view_stack = <<"menu">>
    /\ focus["menu"]
    /\ ~focus["status_line"]

----------------------------------------------------------------------------
(* A Menu on its own: navigation over every short item list.  The Menu of   *)
(* src/src/vimvaldi.py (index menu_index) and the Menu of components.py     *)
(* (index index) are given the same list; only `is None` is asked of its    *)
(* entries.                                                                 *)

\* the item lists hold at most this many entries
MaxItems == 4

\* a selectable entry
Entry == NewMenuItem(<<>>, <<"tooltip">>)

RECURSIVE ItemListsOfLen(_)
ItemListsOfLen(n) ==
    IF n = 0 THEN {<<>>}
    ELSE {<<x>> \o t : x \in {Entry, NewSpacer}, t \in ItemListsOfLen(n - 1)}

\* the item lists: at least one selectable entry
ItemLists ==
    {l \in UNION {ItemListsOfLen(n) : n \in 1..MaxItems} :
        \E n \in 1..Len(l) : ~l[n].spacer}

\* the navigation keys of components.Menu and of the Menu of vimvaldi.py
MenuNavKeys == {"j", "k", "^D", "^U"}
OldMenuNavKeys == {"j", "k"}

\* the indices before and after the next() calls made in a row: another
\* call extends the run (a run longer than the list starts again), any
\* other call ends it
NextTrail(t, i, j, k) ==
    IF k = "j"
        THEN IF Len(t) > Len(items) THEN <<i, j>> ELSE Append(t, j)
        ELSE <<j>>

\* components.Menu.handle_keypress for a navigation key
MenuNav(k) ==
    /\ ~spinning
    /\ \E r \in {MenuKeypress(items, index, k)} :
           /\ index' = r.index
           /\ spinning' = items[r.index + 1].spacer
           /\ ret' = IF items[r.index + 1].spacer THEN ret ELSE r.ret
           /\ trail' = NextTrail(trail, index, r.index, k)
           /\ menu_changed' = IF items[r.index + 1].spacer THEN menu_changed
                                                            ELSE TRUE
           /\ draws' = IF items[r.index + 1].spacer THEN draws ELSE <<>>
    /\ key' = k
    /\ UNCHANGED <<submitted, io, items, old_trail, wrapVars, drawVars, slVars,
                   edVars, runVars, view_stack, focus, queue, enqueued, log>>

\* Menu.handle_keypress of src/src/vimvaldi.py for a navigation key, the
\* status line not being focused
OldMenuNav(k) ==
    /\ \E r \in {OldMenuKeypress(status_line, items, menu_index, k)} :
           /\ menu_index' = r.index
           /\ old_trail' = NextTrail(old_trail, menu_index, r.index, k)
    /\ key' = k
    /\ UNCHANGED <<ret, submitted, io, items, spinning, trail, wrapVars, drawVars,
                   dirtyVars, slVars, edVars, appVars, state_stack, status_line,
                   run_command, run_k, pushed, undone, fallback, process>>

MenuPress == \E k \in MenuNavKeys : MenuNav(k)
OldMenuPress == \E k \in OldMenuNavKeys : OldMenuNav(k)

\* Menu.__init__ of both generations, for every item list
InitMenus ==
    /\ InitStatusLine /\ InitObs /\ InitEditor /\ InitInterface /\ InitController
    /\ InitTextDisplay /\ InitChangeable
    /\ items \in ItemLists
    /\ spinning = FALSE
    /\ trail = <<0>>
    /\ old_trail = <<0>>
NextMenu == MenuPress \/ OldMenuPress
SpecMenu == InitMenus /\ [][NextMenu]_vars

\* the entries of the list that can be selected, by index
Selectable == {i \in 0..(Len(items) - 1) : ~items[i + 1].spacer}
FirstSelectable == CHOOSE i \in Selectable : \A j \in Selectable : i <= j
LastSelectable == CHOOSE i \in Selectable : \A j \in Selectable : i >= j

C18_NNextsReturn ==
    /\ Len(trail) = Len(items) + 1 => trail[Len(trail)] = trail[1]
    /\ Len(old_trail) = Len(items) + 1 => old_trail[Len(old_trail)] = old_trail[1]

\* C18: in the Menu of src/src/vimvaldi.py, as many calls of next() in a row
\* as the list has selectable entries, starting on a selectable entry, return
\* the index to the value it had before the first call.  components.Menu does
\* not come back: with a selectable last entry, len(items) calls of next()
\* in a row leave the index on the last entry.
C18_NextsReturnAfterSelectableCount ==
    /\ (old_trail[1] \in Selectable /\ Len(old_trail) > Cardinality(Selectable))
         => old_trail[Cardinality(Selectable) + 1] = old_trail[1]
    /\ ((Len(items) - 1) \in Selectable /\ Len(trail) = Len(items) + 1)
         => trail[Len(trail)] = Len(items) - 1

C18_Witness ==
    /\ items = <<Entry, NewSpacer, Entry, Entry>>
    /\ old_trail = <<2, 3, 0, 2, 3>>
    /\ trail = <<0, 2, 3, 3, 3>>

\* C19 as stated: in both Menus next() on the last selectable entry selects
\* the first selectable entry and previous() on the first selects the last.
C19_NavigationWraps ==
    [][/\ (OldMenuNav("j") /\ menu_index = LastSelectable)
            => menu_index' = FirstSelectable
       /\ (OldMenuNav("k") /\ menu_index = FirstSelectable)
            => menu_index' = LastSelectable
       /\ (MenuNav("j") /\ index = LastSelectable)
            => index' = FirstSelectable
       /\ (MenuNav("k") /\ index = FirstSelectable)
            => index' = LastSelectable]_vars

\* C19: the Menu of src/src/vimvaldi.py wraps at the ends: next() on the last
\* selectable entry selects the first selectable entry and previous() on the
\* first selects the last.  components.Menu stops at the ends: with the first
\* and last entries selectable, next() on the last entry and previous() on
\* the first leave the selection where it is.
C19_OldMenuWrapsNewMenuStops ==
    [][/\ (OldMenuNav("j") /\ menu_index = LastSelectable)
            => menu_index' = FirstSelectable
       /\ (OldMenuNav("k") /\ menu_index = FirstSelectable)
            => menu_index' = LastSelectable
       /\ (MenuNav("j") /\ index = Len(items) - 1 /\ index \in Selectable)
            => index' = index
       /\ (MenuNav("k") /\ index = 0 /\ index \in Selectable)
            => index' = index]_vars

C19_Witness ==
    /\ items = <<NewSpacer, Entry, NewSpacer, Entry>>
    /\ key = "j"
    /\ old_trail = <<3, 1>>
    /\ trail = <<3, 3>>
    /\ ~spinning

----------------------------------------------------------------------------
(* TextDisplay.draw of src/src/vimvaldi.py: the wrapping of the text into   *)
(* the list `wrapped` (DrawableTextDisplay.__draw of src/vimvaldi/__init__  *)
(* has the same loop).  One step per pass of the for loop's head and one    *)
(* per pass of `while line != ""`.                                          *)

\* the source lines hold at most this many characters
MaxLine == 4

\* the content width is at most this
MaxWidth == 3

\* the characters the wrapping loop does not count
WrapSentinels == {"*", "/", "_"}

\* the keys of `flags`: the characters the drawing loop toggles on
DrawFlags == {"*", "/", "_", "~"}

\* the heading level: the number of leading #
RECURSIVE HeadingLevel(_)
HeadingLevel(l) ==
    IF l # <<>> /\ Head(l) = "#" THEN 1 + HeadingLevel(Tail(l)) ELSE 0

\* while i < len(line) and char_count < width: the values of i, char_count
\* and previous_space when the loop ends
RECURSIVE WrapScan(_, _, _, _, _)
WrapScan(l, w, i, char_count, previous_space) ==
    IF i < Len(l) /\ char_count < w THEN
        IF l[i + 1] \notin WrapSentinels THEN
            WrapScan(l, w,
                     (IF l[i + 1] = "\\" THEN i + 1 ELSE i) + 1,
                     char_count + 1,
                     IF l[i + 1] = " " THEN i ELSE previous_space)
        ELSE WrapScan(l, w, i + 1, char_count, previous_space)
    ELSE [i |-> i, char_count |-> char_count, previous_space |-> previous_space]

\* a wrap step that never breaks the line
WrapBreak_WholeLine(l, w) == Len(l)

\* the index the line is cut at: the last space seen when the scan filled
\* the width, else where the scan stopped
WrapBreak(l, w) ==
    LET scan == WrapScan(l, w, 0, 0, -1)
    IN  IF scan.previous_space # -1 /\ scan.char_count = w
            THEN scan.previous_space
            ELSE scan.i

\* the head of `for line in self.text`, taken when the line before is used up
TakeLine ==
    /\ line = <<>>
    /\ display_text # <<>>
    /\ line' = Head(display_text)
    /\ display_text' = Tail(display_text)
    /\ wrapped' = IF Head(display_text) = <<>>
                      THEN Append(wrapped, [text |-> <<>>, heading_level |-> 0])
                      ELSE wrapped
    /\ heading_level' = HeadingLevel(Head(display_text))
    /\ UNCHANGED <<width, menuVars, drawVars, dirtyVars, slVars, obsVars, edVars,
                   runVars, appVars>>

\* the passes of the wrapping loop followed: more than any line of
\* MaxLine characters takes at a width of 1 or more
MaxWrapped == 6

\* one pass of `while line != ""`
WrapStep ==
    /\ line # <<>>
    /\ Len(wrapped) < MaxWrapped
    /\ \E i \in {WrapBreak(line, width)} :
           /\ wrapped' = Append(wrapped, [text |-> PySlice(line, 0, i),
                                          heading_level |-> heading_level])
           /\ line' = Strip(PyFrom(line, i))
    /\ UNCHANGED <<display_text, heading_level, width, menuVars, drawVars,
                   dirtyVars, slVars, obsVars, edVars, runVars, appVars>>

\* the characters of the source lines
WrapChars == {"a", " ", "*", "~", "\\", "#"}

RECURSIVE LinesOfLen(_)
LinesOfLen(n) ==
    IF n = 0 THEN {<<>>}
    ELSE {<<c>> \o t : c \in WrapChars, t \in LinesOfLen(n - 1)}

\* the source lines
SourceLines == UNION {LinesOfLen(n) : n \in 0..MaxLine}

\* draw before the wrapping loop, for every one-line text and every width
InitWrap ==
    /\ InitStatusLine /\ InitObs /\ InitEditor /\ InitInterface /\ InitController
    /\ InitMenu /\ InitChangeable /\ InitDisplay
    /\ display_text \in {<<l>> : l \in SourceLines}
    /\ width \in 1..MaxWidth
    /\ line = <<>>
    /\ heading_level = 0
    /\ wrapped = <<>>
NextWrap == TakeLine \/ WrapStep
SpecWrap == InitWrap /\ [][NextWrap]_vars

\* draw runs to its end: the loop takes a step whenever it can
SpecWrapFair == SpecWrap /\ WF_vars(NextWrap)

\* the number of characters of an output line that the drawing loop writes:
\* a flag character is not written, a backslash is not written and the
\* character after it is
RECURSIVE ContentCount(_)
ContentCount(t) ==
    IF t = <<>> THEN 0
    ELSE IF Head(t) \in DrawFlags THEN ContentCount(Tail(t))
    ELSE IF Head(t) = "\\"
        THEN IF Len(t) >= 2 THEN 1 + ContentCount(PyFrom(t, 2)) ELSE 0
    ELSE 1 + ContentCount(Tail(t))

\* the line holds one token: no space
LoneToken(t) == \A n \in 1..Len(t) : t[n] # " "

\* C20: for every width >= 1 and every source text, an output line of the
\* wrap step has more content characters than the width only if it holds a
\* single token, alone on its line.
C20_LinesFitWidth ==
    \A n \in 1..Len(wrapped) :
        ContentCount(wrapped[n].text) > width => LoneToken(wrapped[n].text)

C20_Witness ==
    /\ width = 2
    /\ display_text = <<>>
    /\ line = <<>>
    /\ Len(wrapped) = 2
    /\ wrapped[1].text = <<"a", "\\", "*">>
    /\ wrapped[2].text = <<"a">>

\* C21: for every source text and every width >= 1 the wrapping loop
\* terminates: each pass of `while line != ""` leaves the remaining line
\* shorter than it was (also for a token wider than the width and for a line
\* that starts with a space), and the loop reaches the end of the text.
C21_WrappingTerminates ==
    /\ [][WrapStep => Len(line') < Len(line)]_vars
    /\ <>(display_text = <<>> /\ line = <<>>)

C21_Witness ==
    /\ width = 2
    /\ display_text = <<>>
    /\ line = <<>>
    /\ Len(wrapped) = 3
    /\ wrapped[1].text = <<>>
    /\ wrapped[2].text = <<"a", "a">>
    /\ wrapped[3].text = <<"a">>

----------------------------------------------------------------------------
(* TextDisplay.draw as a whole: the wrapping of every line of the text, the *)
(* clamp of line_offset, and the loop that writes the visible lines         *)
(* character by character (src/src/vimvaldi.py 205-289).                    *)

\* the content space is at most this high
MaxHeight == 3

\* the texts scrolled hold at most this many lines
MaxText == 3

\* while line != "": the output lines of one line of the text
RECURSIVE WrapLine(_, _, _)
WrapLine(l, w, h_level) ==
    IF l = <<>> THEN <<>>
    ELSE LET i == WrapBreak(l, w)
         IN  <<[text |-> PySlice(l, 0, i), heading_level |-> h_level]>>
                 \o WrapLine(Strip(PyFrom(l, i)), w, h_level)

\* for line in self.text: the local `wrapped` when the loop ends
RECURSIVE WrapText(_, _)
WrapText(t, w) ==
    IF t = <<>> THEN <<>>
    ELSE (IF Head(t) = <<>> THEN <<[text |-> <<>>, heading_level |-> 0]>>
          ELSE WrapLine(Head(t), w, HeadingLevel(Head(t))))
             \o WrapText(Tail(t), w)

\* a toggle that switches a flag on and never off
Toggle_OnlyOn(on, c) == on \cup {c}

\* flags[c][0] = not flags[c][0], `on` being the flags that are True
Toggle(on, c) == IF c \in on THEN on \ {c} ELSE on \cup {c}

\* while x + j < len(line), from p = x + j: the characters written by addstr
\* with the flags that were True, the flags at the end of the line, and
\* whether line[x + j] raised IndexError after a backslash that ends the line
RECURSIVE RenderLine(_, _, _, _)
RenderLine(l, p, on, cells) ==
    IF p >= Len(l) THEN [cells |-> cells, on |-> on, raised |-> FALSE]
    ELSE IF l[p + 1] \in DrawFlags
        THEN RenderLine(l, p + 1, Toggle(on, l[p + 1]), cells)
    ELSE IF l[p + 1] = "\\"
        THEN IF p + 1 >= Len(l)
                 THEN [cells |-> cells, on |-> on, raised |-> TRUE]
                 ELSE RenderLine(l, p + 2, on,
                                 Append(cells, [char |-> l[p + 2], flags |-> on]))
    ELSE RenderLine(l, p + 1, on, Append(cells, [char |-> l[p + 1], flags |-> on]))

\* for line, h_level in wrapped[...]: the rows written, `flags` being
\* created once before the loop
RECURSIVE RenderLines(_, _)
RenderLines(ls, on) ==
    IF ls = <<>> THEN [rows |-> <<>>, raised |-> FALSE]
    ELSE LET r == RenderLine(Head(ls).text, 0, on, <<>>)
         IN  IF r.raised THEN [rows |-> <<r.cells>>, raised |-> TRUE]
             ELSE LET rest == RenderLines(Tail(ls), r.on)
                  IN  [rows |-> <<r.cells>> \o rest.rows, raised |-> rest.raised]

\* an offset that is only kept from going below 0
ClampOffset_NoUpperEnd(off, total, h) == Max(0, off)

\* self.line_offset = max(0, min(self.line_offset, len(wrapped) - height))
ClampOffset(off, total, h) == Max(0, Min(off, total - h))

\* TextDisplay.draw on a cleared window (Drawable.refresh)
TextDisplayDraw ==
    /\ ~rendered
    /\ ~draw_raised
    /\ \E w \in {WrapText(display_text, width)} :
       \E off \in {ClampOffset(line_offset, Len(w), height)} :
       \E r \in {RenderLines(PySlice(w, off, height + off), {})} :
           /\ wrapped' = w
           /\ line_offset' = off
           /\ screen' = r.rows
           /\ draw_raised' = r.raised
    /\ rendered' = TRUE
    /\ UNCHANGED <<display_text, line, heading_level, width, height, menuVars,
                   dirtyVars, slVars, obsVars, edVars, runVars, appVars>>

\* the characters of the texts drawn
RenderChars == {"a", " ", "*", "~", "\\"}

RECURSIVE RenderLinesOfLen(_)
RenderLinesOfLen(n) ==
    IF n = 0 THEN {<<>>}
    ELSE {<<c>> \o t : c \in RenderChars, t \in RenderLinesOfLen(n - 1)}

\* the first line of a text drawn, and the lines that may follow it
RenderFirstLines == UNION {RenderLinesOfLen(n) : n \in 0..MaxLine}
RenderNextLines == {<<"a">>, <<"*", "a">>}

\* the text `*bold* plain`
BoldPlain == <<"*", "b", "o", "l", "d", "*", " ", "p", "l", "a", "i", "n">>

\* a text display about to be drawn for the first time: every text of one
\* or two lines at every width and height, scrolled by 0 or 1 lines, and
\* the text `*bold* plain` at width 20
InitRender ==
    /\ InitStatusLine /\ InitObs /\ InitEditor /\ InitInterface /\ InitController
    /\ InitMenu /\ InitChangeable
    /\ \/ /\ display_text \in {<<l>> : l \in RenderFirstLines}
                  \cup {<<l, m>> : l \in RenderFirstLines, m \in RenderNextLines}
          /\ width \in 1..MaxWidth
       \/ /\ display_text = <<BoldPlain>>
          /\ width = 20
    /\ height \in 1..MaxHeight
    /\ line_offset \in 0..1
    /\ line = <<>>
    /\ heading_level = 0
    /\ wrapped = <<>>
    /\ screen = <<>>
    /\ draw_raised = FALSE
    /\ rendered = FALSE
NextRender == TextDisplayDraw
SpecRender == InitRender /\ [][NextRender]_vars

----------------------------------------------------------------------------
(* Claims about the drawing of the visible lines (SpecRender) *)

\* the character at q follows a backslash that is itself not escaped
RECURSIVE Escaped(_, _)
Escaped(t, q) == q > 1 /\ t[q - 1] = "\\" /\ ~Escaped(t, q - 1)

\* the flags with an odd number of unescaped occurrences before q
StyleAt(t, q) ==
    {f \in DrawFlags :
        Cardinality({p \in 1..(q - 1) : t[p] = f /\ ~Escaped(t, p)}) % 2 = 1}

\* the character at q is one that is written: an escaped one, or one that is
\* neither a flag nor a backslash
IsWritten(t, q) == Escaped(t, q) \/ t[q] \notin DrawFlags \cup {"\\"}

\* the written characters of t from q on, each with the flags counted before it
RECURSIVE StyledFrom(_, _)
StyledFrom(t, q) ==
    IF q > Len(t) THEN <<>>
    ELSE (IF IsWritten(t, q) THEN <<[char |-> t[q], flags |-> StyleAt(t, q)]>>
                             ELSE <<>>) \o StyledFrom(t, q + 1)

RECURSIVE Concat(_)
Concat(rows) == IF rows = <<>> THEN <<>> ELSE Head(rows) \o Concat(Tail(rows))

\* the texts of output lines, one after the other
TextOf(ls) == Concat([n \in 1..Len(ls) |-> ls[n].text])

\* the output lines the last draw showed
Visible == PySlice(wrapped, line_offset, height + line_offset)

\* every line of the text drawn on its own, the flags counted from its start
RECURSIVE StyledPerLine(_, _)
StyledPerLine(t, w) ==
    IF t = <<>> THEN <<>>
    ELSE StyledFrom(TextOf(WrapLine(Head(t), w, 0)), 1) \o StyledPerLine(Tail(t), w)

\* C22 as stated: the flags of a character are counted from the start of its
\* source line, an unclosed sentinel not reaching the following source lines
\* (text shown from its first line).
C22_TogglesResetPerSourceLine ==
    (rendered /\ ~draw_raised /\ line_offset = 0)
        => IsPrefix(Concat(screen), StyledPerLine(display_text, width))

\* C22: a style is off after an even number of occurrences of its sentinel
\* and on after an odd number, the occurrences being counted over all the
\* lines drawn so far in this draw: the toggle state is reset when a draw
\* starts, not when a source line starts, so an unclosed sentinel styles the
\* source lines that follow.
C22_TogglesCountedOverDraw ==
    (rendered /\ ~draw_raised)
        => Concat(screen) = StyledFrom(TextOf(Visible), 1)

C22_Witness ==
    /\ rendered /\ ~draw_raised
    /\ display_text = <<<<"*", "a">>, <<"a">>>>
    /\ line_offset = 0
    /\ screen = <<<<[char |-> "a", flags |-> {"*"}]>>,
                  <<[char |-> "a", flags |-> {"*"}]>>>>

\* a text without its unescaped sentinels and without the backslashes that
\* escape a character
RECURSIVE Plain(_)
Plain(t) ==
    IF t = <<>> THEN <<>>
    ELSE IF Head(t) = "\\"
        THEN IF Len(t) >= 2 THEN <<t[2]>> \o Plain(SubSeq(t, 3, Len(t))) ELSE <<>>
    ELSE IF Head(t) \in DrawFlags THEN Plain(Tail(t))
    ELSE <<Head(t)>> \o Plain(Tail(t))

\* the characters of the escaped positions of t, in order
EscapedChars(t) ==
    LET F[q \in 0..Len(t)] ==
            IF q = 0 THEN <<>>
            ELSE IF Escaped(t, q) THEN Append(F[q - 1], t[q]) ELSE F[q - 1]
    IN  F[Len(t)]

\* `bold` in bold followed by ` plain` unstyled
BoldPlainRow ==
    [n \in 1..10 |->
        [char |-> Plain(BoldPlain)[n], flags |-> IF n <= 4 THEN {"*"} ELSE {}]]

\* C23: for every text drawn, an unescaped sentinel is never written and only
\* toggles its style, and a character after a backslash is written as it is
\* and toggles nothing: the draw writes every visible output line without its
\* sentinels and escaping backslashes, the escaped characters of the text are
\* those of the output lines, and `*bold* plain` at width 20 is one row,
\* `bold` in bold followed by ` plain` unstyled.
C23_SentinelsToggleEscapesLiteral ==
    rendered =>
        /\ ~draw_raised
        /\ [n \in 1..Len(Concat(screen)) |-> Concat(screen)[n].char]
               = Plain(TextOf(Visible))
        /\ \A n \in 1..Len(screen) :
               (\A q \in 1..Len(Visible[n].text) :
                    Visible[n].text[q] \in DrawFlags => Escaped(Visible[n].text, q))
                   => \A c \in 1..Len(screen[n]) :
                          screen[n][c].flags = IF c = 1 THEN screen[n][1].flags
                                                        ELSE screen[n][c - 1].flags
        /\ EscapedChars(Concat(display_text)) = EscapedChars(TextOf(wrapped))
        /\ (display_text = <<BoldPlain>> /\ line_offset = 0)
               => screen = <<BoldPlainRow>>

----------------------------------------------------------------------------
(* A text display scrolled and resized, each event followed by the draw of  *)
(* the refresh that Interface.run makes after it (SpecScroll).              *)

\* TextDisplay.handle_keypress of src/src/vimvaldi.py (291-316), the status
\* line not being focused: line_offset after the key
OldTextDisplayOffset(off, h, k) ==
    IF k \in {"j"} \cup EnterKeys THEN off + 1
    ELSE IF k = "k" THEN off - 1
    ELSE IF k = "^D" THEN off + (h \div 3)
    ELSE IF k = "^U" THEN off - (h \div 3)
    ELSE off

\* components.TextDisplay._handle_keypress: line_offset after the key
TextDisplayOffset(off, k) ==
    IF k \in {"j"} \cup EnterKeys THEN off + 1
    ELSE IF k = "k" THEN off - 1
    ELSE off

OldScrollKeys == {"j", "k", "\\n", "^D", "^U"}
ScrollKeys == {"j", "k", "\\n"}

\* a scroll key handled by the TextDisplay of src/src/vimvaldi.py
OldScroll(k) ==
    /\ rendered
    /\ ~draw_raised
    /\ line_offset' = OldTextDisplayOffset(line_offset, height, k)
    /\ rendered' = FALSE
    /\ key' = k
    /\ UNCHANGED <<ret, submitted, io, wrapVars, height, screen, draw_raised,
                   menuVars, dirtyVars, slVars, edVars, runVars, appVars>>

\* a scroll key handled by components.TextDisplay
Scroll(k) ==
    /\ rendered
    /\ ~draw_raised
    /\ line_offset' = TextDisplayOffset(line_offset, k)
    /\ rendered' = FALSE
    /\ key' = k
    /\ UNCHANGED <<ret, submitted, io, wrapVars, height, screen, draw_raised,
                   menuVars, dirtyVars, slVars, edVars, runVars, appVars>>

\* Interface.resize_windows: the content space has another size
ResizeWindows ==
    /\ rendered
    /\ ~draw_raised
    /\ \E w \in 1..MaxWidth, h \in 0..MaxHeight :
           /\ <<w, h>> # <<width, height>>
           /\ width' = w
           /\ height' = h
    /\ rendered' = FALSE
    /\ key' = "KEY_RESIZE"
    /\ UNCHANGED <<ret, submitted, io, display_text, line, heading_level, wrapped,
                   line_offset, screen, draw_raised, menuVars, dirtyVars, slVars,
                   edVars, runVars, appVars>>

OldScrollPress == \E k \in OldScrollKeys : OldScroll(k)
ScrollPress == \E k \in ScrollKeys : Scroll(k)

\* the lines of the texts scrolled
ScrollLines == {<<>>, <<"a">>, <<"a", " ", "a">>}

RECURSIVE TextsOfLen(_)
TextsOfLen(n) ==
    IF n = 0 THEN {<<>>}
    ELSE {<<l>> \o t : l \in ScrollLines, t \in TextsOfLen(n - 1)}

\* a text display of every size about to be drawn for the first time
InitScroll ==
    /\ InitStatusLine /\ InitObs /\ InitEditor /\ InitInterface /\ InitController
    /\ InitMenu /\ InitChangeable
    /\ display_text \in UNION {TextsOfLen(n) : n \in 1..MaxText}
    /\ width \in 1..MaxWidth
    /\ height \in 0..MaxHeight
    /\ line_offset = 0
    /\ line = <<>>
    /\ heading_level = 0
    /\ wrapped = <<>>
    /\ screen = <<>>
    /\ draw_raised = FALSE
    /\ rendered = FALSE
NextScroll == OldScrollPress \/ ScrollPress \/ ResizeWindows \/ TextDisplayDraw
SpecScroll == InitScroll /\ [][NextScroll]_vars

\* C24: at every render of a text display the offset used for the visible
\* slice is within 0..max(0, total output lines - height), after any
\* sequence of scroll keys and resizes: the draw brings an offset scrolled
\* past either end back into the range, and shows the slice at that offset.
C24_OffsetWithinRange ==
    /\ rendered => /\ 0 <= line_offset
                   /\ line_offset <= Max(0, Len(wrapped) - height)
                   /\ wrapped = WrapText(display_text, width)
                   /\ Len(screen) = Len(Visible)
    /\ [][TextDisplayDraw =>
             line_offset' = IF line_offset < 0 THEN 0
                            ELSE IF line_offset > Max(0, Len(wrapped') - height)
                                THEN Max(0, Len(wrapped') - height)
                            ELSE line_offset]_vars

\* j at the only position of a text that fits the window: the draw after it
\* took the offset back from 1 to 0
C24_Witness ==
    /\ rendered
    /\ key = "j"
    /\ Len(wrapped) = 1
    /\ height = 3
    /\ line_offset = 0

----------------------------------------------------------------------------
(* Drawable.draw and the Changeable flag (src/vimvaldi/__init__.py 57-62,   *)
(* components.py 26-37), for a DrawableMenu that is navigated (SpecDirty).  *)

\* the window operations of one call of Drawable.draw:
\* if self.has_changed(): self.window.clear(); self.__draw()
DrawOps(has_changed) == IF has_changed THEN <<"clear", "__draw">> ELSE <<>>

\* the last two entries of a history
LastTwo(h) == IF Len(h) > 2 THEN SubSeq(h, Len(h) - 1, Len(h)) ELSE h

\* Drawable.draw: no statement of it assigns `changed`
Draw ==
    /\ ~spinning
    /\ draws' = LastTwo(Append(draws, DrawOps(menu_changed)))
    /\ UNCHANGED <<menu_changed, menuVars, wrapVars, drawVars, slVars, obsVars,
                   edVars, runVars, appVars>>

\* Changeable.set_changed(value), called by the owner of the component;
\* set_changed(True) is how a mutation marks the component
SetChanged(value) ==
    /\ ~spinning
    /\ menu_changed' = value
    /\ draws' = IF value THEN <<>> ELSE draws
    /\ UNCHANGED <<menuVars, wrapVars, drawVars, slVars, obsVars, edVars, runVars,
                   appVars>>

SetChangedCall == \E value \in BOOLEAN : SetChanged(value)

NextDirty == MenuPress \/ Draw \/ SetChangedCall
SpecDirty == InitMenus /\ [][NextDirty]_vars

\* C25: a draw of a component whose flag is clear performs no drawing
\* operation, and of two draw calls in a row with no mutation in between at
\* most one performs drawing operations.
C25_CleanDrawDrawsNothing ==
    /\ [][(Draw /\ ~menu_changed) => draws'[Len(draws')] = <<>>]_vars
    /\ [](Len(draws) = 2 => (draws[1] = <<>> \/ draws[2] = <<>>))

\* C26: after the draw of a dirty component its flag is clear, so the flag is
\* set at a draw only if a mutation happened since the draw before.
C26_DrawClearsFlag ==
    /\ [][(Draw /\ menu_changed) => ~menu_changed']_vars
    /\ [](draws # <<>> => ~menu_changed)

----------------------------------------------------------------------------
(* Interface.run in a terminal that a resize can make too small to draw in  *)
(* (SpecSmall): the refresh of a pass then raises curses.error, which run   *)
(* catches to write "Screen size too small!" before it reads the next key.  *)

\* the keys read while the status line is not focused
SmallKeys == {"\\n", "j", "k", "l", "q"}

SmallPress == \E k \in SmallKeys : Press(k)

NextSmall == SmallPress \/ Resize \/ Shrink
SpecSmall == InitRun /\ [][NextSmall]_vars

\* C27: when the draw of a pass failed, the fallback message is shown, the
\* program goes on, and no input event is routed to the active component
\* until a resize has been followed by a successful draw: a key read while
\* the message is shown changes nothing of the component stack, the menu,
\* the status line or the command of the pass.
C27_NoInputWhileDrawFails ==
    /\ [][Shrink => (fallback' /\ process' # "crashed")]_vars
    /\ [][(fallback /\ run_k' # "KEY_RESIZE")
            => UNCHANGED <<state_stack, menu_index, status_line, run_command>>]_vars

\* C28: a resize event is not resolved as a command: the pass that handles
\* it leaves the component stack, the focus and the text of the status line
\* as they were and does not end the program, whatever command the key
\* before it was resolved to (SpecRun).
C28_ResizeResolvesNothing ==
    [][run_k' = "KEY_RESIZE" => UNCHANGED <<state_stack, status_line, process>>]_vars

----------------------------------------------------------------------------
(* Termination of the resolution of commands (SpecAppFair) *)

\* the controller goes on resolving while commands wait
SpecAppFair == SpecApp /\ WF_vars(AppResolve)

\* how many further reactions a command can set off: a status-line command
\* none, a focus or stack command those of the component that gains the
\* focus, any other command those of the component that handles it
Rank(c) ==
    IF c.type \in {"SetStatusLineText", "ClearStatusLine", "SetStatusLineState"}
        THEN 0
    ELSE IF c.type \in {"PopComponent", "PushComponent", "ToggleFocus"} THEN 1
    ELSE 2

\* C29: the resolution of the commands of one key press terminates: every
\* command a handler returns in reaction to a command ranks below that
\* command, so no chain of reactions goes on for ever; the queue drains (or
\* the program ends), and a key is read only when the queue is empty.
C29_ResolutionTerminates ==
    /\ [][key' = "command" =>
             /\ queue # <<>>
             /\ \A n \in 1..Len(ret') : Rank(ret'[n]) < Rank(Head(queue))]_vars
    /\ [][key' # "command" => queue = <<>>]_vars
    /\ [](queue # <<>> => <>(queue = <<>> \/ process # "running"))

\* a quit command resolved in the editor: ToggleFocus and Quit from the key,
\* the file name for the editor that gained the focus, the PopComponent the
\* editor returned, then the status-line commands of the menu that gained
\* the focus, and the queue is empty
C29_Witness ==
    /\ queue = <<>>
    /\ process = "running"
    /\ Len(log) = 6
    /\ log[1].type = "ToggleFocus"
    /\ log[2].type = "Quit"
    /\ log[3].type = "SetStatusLineText"
    /\ log[4].type = "PopComponent"
    /\ log[5].type = "ClearStatusLine"
    /\ log[6].type = "SetStatusLineText"

\* C30: the status line never changes the focus itself and only asks for
\* it: a ToggleFocus is returned for Enter, Escape or Backspace only; a
\* character, Delete and every key that moves the cursor return no command;
\* and no key press returns more than one ToggleFocus (SpecSL).
C30_StatusLineOnlyRequestsFocus ==
    /\ [](key \in SLKeys =>
            /\ Cardinality({n \in 1..Len(ret) : ret[n] = ToggleFocusCommand}) <= 1
            /\ (\E n \in 1..Len(ret) : ret[n] = ToggleFocusCommand)
                   => key \in EnterKeys \cup {EscKey} \cup BackspaceKeys
            /\ key \notin EnterKeys \cup {EscKey} \cup BackspaceKeys => ret = <<>>)
    /\ [][focus' = focus]_vars

\* Enter on the text `q`: one ToggleFocus, then the Quit
C30_Witness ==
    /\ key \in EnterKeys
    /\ submitted = w_q
    /\ ret = <<ToggleFocusCommand, QuitCommand(FALSE)>>
    /\ focus = [u \in Units |-> u = "logo"]

----------------------------------------------------------------------------
(* The editor with an owner that clears its Changeable flag after drawing   *)
(* it (SpecEdDirty).                                                        *)

\* Changeable.set_changed(value) of the editor
EditorSetChanged(value) ==
    /\ editor_changed' = value
    /\ UNCHANGED <<score, position, current_file_path, changed_since_saving,
                   previous_repeatable_command, unsaved, slVars, obsVars, runVars, appVars,
                   libVars>>

EditorSetChangedCall == \E value \in BOOLEAN : EditorSetChanged(value)

NextEdDirty == EdHandle \/ EdPress \/ EditorSetChangedCall
SpecEdDirty == InitEd /\ [][NextEdDirty]_vars

----------------------------------------------------------------------------
(* Further claims about the keys of the status line *)

\* C32: on the status line Arrow-Left takes the cursor offset from c to
\* c - 1 for c >= 1 and leaves it at 0, Arrow-Right takes it from c to c + 1
\* below the length of the buffer and leaves it at the length otherwise, and
\* neither key changes the buffer (SpecSL).
C32_ArrowsMoveByOne ==
    /\ [][key' = "KEY_LEFT" =>
             /\ cursor_offset' = IF cursor_offset >= 1 THEN cursor_offset - 1 ELSE 0
             /\ text' = text]_vars
    /\ [][key' = "KEY_RIGHT" =>
             /\ cursor_offset' = IF cursor_offset < Len(text[1])
                                     THEN cursor_offset + 1 ELSE Len(text[1])
             /\ text' = text]_vars

\* an integer key code the status line has no branch for, read while the
\* buffer is short
SLOtherKey(k) ==
    /\ Len(text[1]) <= MaxLen
    /\ LET r == StatusLineKeypress(text, cursor_offset, current_state, k)
       IN  /\ text' = r.text
           /\ cursor_offset' = r.cursor_offset
           /\ ret' = r.ret
    /\ changed' = TRUE
    /\ key' = k
    /\ submitted' = NoText
    /\ UNCHANGED <<current_state, io, edVars, runVars, appVars, libVars>>

SLOtherPress == \E k \in {"KEY_UP"} : SLOtherKey(k)

NextSLOther == SLPress \/ SLHandle \/ SLOtherPress
SpecSLOther == InitSL /\ [][NextSLOther]_vars

\* C39: a key that is neither a printable character nor one of the editing
\* keys the status line handles, such as Arrow-Up, leaves the left-slot
\* buffer and the cursor offset unchanged (SpecSLOther).
C39_UnhandledKeyChangesNothing ==
    [][key' = "KEY_UP" => (text' = text /\ cursor_offset' = cursor_offset)]_vars

----------------------------------------------------------------------------
(* Further claims about the drawing and the wrapping of a text, and about   *)
(* the navigation of a menu                                                 *)

\* C33: for every text, width and scroll offset each visible character is
\* drawn with the style it has when the text is drawn from its first line:
\* the rows shown are the rows line_offset.. of the rows that a draw of all
\* the output lines writes (SpecRender).
C33_StyleAsFromFirstLine ==
    (rendered /\ ~draw_raised /\ ~RenderLines(wrapped, {}).raised)
        => screen = PySlice(RenderLines(wrapped, {}).rows,
                            line_offset, height + line_offset)

\* C34: navigation of a menu terminates: for every item list with an entry
\* that can be selected, lists that begin or end with a spacer included,
\* every next, previous and page jump returns (SpecMenu).
C34_NavigationReturns ==
    Selectable # {} => ~spinning

\* the content width is at least minus this
MaxNarrow == 1

\* draw in a window narrower than the two side margins: the content width
\* (window width - 2 * side_offsets[0]) is 0 or negative
InitNarrow ==
    /\ InitStatusLine /\ InitObs /\ InitEditor /\ InitInterface /\ InitController
    /\ InitMenu /\ InitChangeable /\ InitDisplay
    /\ display_text \in {<<l>> : l \in SourceLines}
    /\ width \in (0 - MaxNarrow)..0
    /\ line = <<>>
    /\ heading_level = 0
    /\ wrapped = <<>>
SpecNarrow == InitNarrow /\ [][NextWrap]_vars /\ WF_vars(NextWrap)

\* C35: the drawing of a text display terminates for every window size,
\* also when the content width is 0 or negative: no pass of the wrapping
\* loop leaves the line as it was, and the loop comes to the end of the text
\* (SpecNarrow).
C35_DrawTerminatesWhenNarrow ==
    /\ [][WrapStep => line' # line]_vars
    /\ <>[](display_text = <<>> /\ line = <<>>)

\* C36: a line of the text with at most `width` content characters, exactly
\* `width` included, gives exactly one output line, with or without spaces
\* in it (SpecRender, the texts of one line).
C36_FittingLineIsOneLine ==
    (rendered /\ Len(display_text) = 1
              /\ ContentCount(display_text[1]) <= width)
        => Len(wrapped) = 1

\* the characters of a text that are not spaces, in their order
NonSpace(s) == SelectSeq(s, LAMBDA c : ~IsSpace(c))

\* the text the wrapping loop holds: the output lines made so far, the rest
\* of the line in hand and the lines not taken yet
Held == TextOf(wrapped) \o line \o Concat(display_text)

\* C37: wrapping loses no content: at every width >= 1, every step of the
\* wrapping loop keeps the non-space characters of the text (sentinels and
\* backslashes included) and their order, the output line of a pass is the
\* start of the line in hand, and nothing is added, so the output lines read
\* in order hold exactly the non-space characters of the source.
C37_WrappingKeepsContent ==
    [][/\ NonSpace(Held') = NonSpace(Held)
       /\ Len(Held') <= Len(Held)
       /\ WrapStep =>
              /\ IsPrefix(wrapped'[Len(wrapped')].text, line)
              /\ NonSpace(wrapped'[Len(wrapped')].text) \o NonSpace(line')
                     = NonSpace(line)]_vars

\* a pass at width 3 has cut a line at its space and dropped the space
C37_Witness ==
    /\ width = 3
    /\ display_text = <<>>
    /\ Len(wrapped) = 1
    /\ wrapped[1].text = <<"*", "a">>
    /\ line = <<"a">>

\* C38: after any sequence of Insert, Save, Open and Quit commands and `.`
\* keys handled by the editor the insert position lies between 0 and the
\* number of items of the current score, also right after a successful open
\* of a shorter score.
C38_PositionWithinScore == 0 <= position /\ position <= Len(score)

\* the step handled an unforced QuitCommand, of `q`, `quit`, `wq` or `wq!`,
\* and the editor returned the command that pops it
UnforcedQuitPops ==
    /\ key' = "command"
    /\ QuitCommand(FALSE) \in EditorDomain(EnterCommands("NORMAL", submitted'))
    /\ ret' = <<PopComponentCommand>>

\* C40: after any sequence of Insert, Save, Open and Quit commands and `.`
\* keys handled by the editor, an unforced QuitCommand returns the pop only
\* if no insert has succeeded since the last successful save or successful
\* open; after `wq` or `wq!` whose save fails an editor with unsaved changes
\* is not popped.
C40_UnforcedQuitKeepsUnsaved == [][UnforcedQuitPops => ~unsaved]_vars

====
